---- MODULE Spec2Model ----
(***************************************************************************)
(* Model of the catalogue import pipeline (hooks/useCSVImport.ts and       *)
(* workers/csvWorker.ts), the Dexie store (db/db.ts), the selection hook   *)
(* (hooks/useSelection.ts) and the page handlers of routes/products.tsx.   *)
(*                                                                         *)
(* Granularity: one action is one task of the interactive thread - a user  *)
(* event, the delivery of one worker message, or the completion of one     *)
(* store transaction together with the continuation that resumes after     *)
(* its `await`, up to that continuation's next `await`.                    *)
(***************************************************************************)
EXTENDS Integers, Sequences, FiniteSets, TLC

\* ---------------------------------------------------------------- bounds
\* number of importFile calls explored (dataset ids are 1..MaxImports)
MaxImports == 2
\* number of raw rows of an imported file
MaxRows == 2
\* csvWorker.ts CHUNK_SIZE (500 in the source), scaled down so that a file
\* of MaxRows rows spans several batches
CHUNK_SIZE == 1

\* routes/products.tsx PAGE_SIZE (200 in the source), scaled down so that a
\* dataset of MaxRows records spans several pages
PAGE_SIZE == 1
\* rows requested ahead of the visible range (6 in the source), scaled down
\* so that a visible range can end before the last page
AheadRows == 0
\* number of grid columns the layout can compute
MaxCols == 2
\* number of raw rows of the file behind the dataset a grid shows
MaxRecords == 3
\* number of startExport calls explored
MaxExports == 2
\* useExport.ts BATCH (5000 in the source): ids per store query while loading
BATCH == 1
\* exportWorker.ts CHUNK (5000 in the source): rows per serialization step
CHUNK == 1
\* number of raw rows of a file handed to the ingestion worker on its own
MaxRaw == 3
\* number of rows handed to the export worker on its own
MaxOut == 3
\* length of the titles of those rows
MaxTitle == 2
\* number of image urls of those rows
MaxUrls == 2
\* highest scroll offset of the grid
MaxScrollTop == 2
\* scroll events of one burst
MaxBurst == 2

Attempts == 1..MaxImports
Exports == 1..MaxExports
Ids == 1..MaxImports

\* result of Number(raw) that is NaN
NaN == -1
\* A text (a JavaScript string) is a sequence of characters; the names of the
\* four columns are characters of their own.  The decimal digits of the
\* numbers used in the source files:
Digits == <<"1", "2", "3", "4">>
BIds == 1..MaxRows
\* the value of a property an object does not have
undefined == << "undefined" >>
WhiteSpace == {" ", "\t", "\n", "\r"}

\* a raw row of Papa (header: true): column name -> cell; the title, source
\* reference and images cells of the source files are fixed
RawRow(id) ==
  [c \in {<<"goods_id">>, <<"goods_title">>, <<"gomer_sync_source_id">>, <<"goods_images_url">>} |->
     CASE c = <<"goods_id">> -> id
       [] c = <<"goods_title">> -> <<"a">>
       [] c = <<"gomer_sync_source_id">> -> <<"1">>
       [] OTHER -> <<"u">>]

\* Source files: row i carries business id i (business ids are unique in a
\* dataset) or a cell "x" that does not parse as a number.
Files ==
  { [i \in 1..MaxRows |-> RawRow(IF i \in S THEN << Digits[i] >> ELSE << "x" >>)] :
      S \in SUBSET (1..MaxRows) }

VARIABLES
  \* ---- Storage Engine (db.ts)
  datasets,      \* csvFiles table: id -> [totalRows]
  nextId,        \* auto-increment key of csvFiles
  goods,         \* goods table in primary-key order
  dbq,           \* store transactions created and not yet completed
  \* ---- useCSVImport refs and state
  status, error, progress, processedRows,
  workerRef,     \* workerRef.current: attempt whose worker it holds, 0 = null
  pendingChunks, \* pendingChunks.current
  isSaving,      \* isSaving.current
  imp,           \* per importFile call: closure variables and handler position
  \* ---- csvWorker.ts instances and their outbound message ports
  wk, chan,
  \* ---- useSelection state, ref and localStorage
  activeFileId, activeFileIdRef, selection, lsSel, lsActive,
  \* ---- history (not program state)
  cancelled,     \* attempts whose worker cancel() terminated
  discarded,     \* batches that were queued in pendingChunks when cancel() ran
  failed,        \* dataset ids for which a bulkInsert rejected
  deleted,       \* ids whose handleDelete finished and that had records and a stored selection
  \* ---- the mounted VirtualizedGrid and the page's pending selectAll queries
  grid,          \* refs and state of the grid mounted under key = grid.file (0 = none)
  selAllQ,       \* dataset ids whose goodsRepo.getByFileId of handleSelectAll is pending
  leftSel,       \* history: the in-memory selection a dataset had when it was last left
  ssScroll,      \* sessionStorage: dataset id -> text under the key scroll_pos_file_<id>
  \* ---- useExport state and ref, its startExport calls and export workers
  exState,       \* state: [status, progress, error]
  exWorkerRef,   \* workerRef.current: export whose worker it holds, 0 = null
  ex,            \* per startExport call: closure variables and position
  xwk, xchan,    \* exportWorker.ts instances and their outbound message ports
  timers,        \* exports whose 2 s auto-revert timer is pending
  exCancelled,   \* history: exports that were loading or exporting when cancel() ran
  produced       \* history: exports whose file was handed to the download click

dbVars  == <<datasets, nextId, goods, dbq>>
impVars == <<status, error, progress, processedRows, workerRef, pendingChunks, isSaving, imp>>
wkVars  == <<wk, chan>>
selVars == <<activeFileId, activeFileIdRef, selection, lsSel, lsActive>>
histVars == <<cancelled, discarded, failed, deleted>>
uiVars == <<grid, selAllQ, leftSel, ssScroll>>
exVars == <<exState, exWorkerRef, ex, xwk, xchan, timers, exCancelled, produced>>
vars == <<dbVars, impVars, wkVars, selVars, histVars, uiVars, exVars>>

\* ------------------------------------------------------------ csvWorker.ts
\* String.prototype.trim
RECURSIVE trimStart(_)
trimStart(s) == IF s # <<>> /\ Head(s) \in WhiteSpace THEN trimStart(Tail(s)) ELSE s

RECURSIVE trimEnd(_)
trimEnd(s) ==
  IF s # <<>> /\ s[Len(s)] \in WhiteSpace THEN trimEnd(SubSeq(s, 1, Len(s) - 1)) ELSE s

trim(s) == trimEnd(trimStart(s))

\* Number(s) for undefined and for texts; the numerals are those of one digit
Number(s) ==
  IF s = undefined THEN NaN
  ELSE LET t == trim(s) IN
       IF t = <<>> \/ t = << "0" >> THEN 0
       ELSE IF Len(t) = 1 /\ \E d \in DOMAIN Digits : Digits[d] = t[1]
         THEN CHOOSE d \in DOMAIN Digits : Digits[d] = t[1]
         ELSE NaN

\* String(n) of a number of one digit
String(n) == IF n = 0 THEN << "0" >> ELSE << Digits[n] >>

\* raw[name], undefined when the row has no such column
Cell(raw, name) == IF name \in DOMAIN raw THEN raw[name] ELSE undefined

\* Papa's reader of a delimited text (delimiter ",", line break "\n", quote
\* character "\"") as an automaton over the characters.  Its states: S at the
\* start of a field, U inside an unquoted field, Q inside a quoted field, QQ
\* after a quote met inside a quoted field.  A quote opens a quoted field only
\* at the start of a field; inside, a doubled quote is a quote, a quote before
\* a delimiter, a line break or the end closes the field, any other quote is
\* kept.
Step(q, c) ==
  CASE q = "S" -> IF c = "\"" THEN "Q" ELSE IF c \in {",", "\n"} THEN "S" ELSE "U"
    [] q = "U" -> IF c \in {",", "\n"} THEN "S" ELSE "U"
    [] q = "Q" -> IF c = "\"" THEN "QQ" ELSE "Q"
    [] OTHER -> IF c = "\"" THEN "Q" ELSE IF c \in {",", "\n"} THEN "S" ELSE "Q"

\* c read in state q ends a field ("," or "\n" outside quotes)
Ends(q, c) == q # "Q" /\ c \in {",", "\n"}

\* the characters c read in state q adds to the field
Kept(q, c) ==
  CASE Ends(q, c) -> <<>>
    [] q = "S" /\ c = "\"" -> <<>>
    [] q = "Q" /\ c = "\"" -> <<>>
    [] q = "QQ" /\ c # "\"" -> << "\"", c >>
    [] OTHER -> << c >>

\* the states in which the characters lo..hi of t are read, from state q on,
\* and the state after them
RECURSIVE Run(_, _, _, _)
Run(t, lo, hi, q) ==
  IF lo > hi THEN [before |-> <<>>, after |-> q]
  ELSE IF lo = hi THEN [before |-> << q >>, after |-> Step(q, t[lo])]
  ELSE LET mid == (lo + hi) \div 2
           a == Run(t, lo, mid, q)
           b == Run(t, mid + 1, hi, a.after) IN
       [before |-> a.before \o b.before, after |-> b.after]

\* the field the characters lo..hi of t make up
RECURSIVE Field(_, _, _, _)
Field(t, q, lo, hi) ==
  IF lo > hi THEN <<>>
  ELSE IF lo = hi THEN Kept(q[lo], t[lo])
  ELSE LET mid == (lo + hi) \div 2 IN Field(t, q, lo, mid) \o Field(t, q, mid + 1, hi)

\* the members of a set of positions in ascending order
Ascending(P) ==
  [k \in 1..Cardinality(P) |-> CHOOSE i \in P : Cardinality({j \in P : j < i}) = k - 1]

\* the pieces of lo..hi between the positions of P, P a set of positions in
\* lo..hi: the bounds of each piece
Pieces(P, lo, hi) ==
  LET cut == Ascending(P) \o << hi + 1 >> IN
  [k \in 1..Len(cut) |-> [lo |-> IF k = 1 THEN lo ELSE cut[k - 1] + 1, hi |-> cut[k] - 1]]

\* the rows of a delimited text, each the sequence of its fields
Rows(t) ==
  LET n == Len(t)
      q == Run(t, 1, n, "S").before
      lines == Pieces({i \in 1..n : Ends(q[i], t[i]) /\ t[i] = "\n"}, 1, n) IN
  [r \in 1..Len(lines) |->
     LET cells == Pieces({i \in lines[r].lo..lines[r].hi : Ends(q[i], t[i])},
                         lines[r].lo, lines[r].hi) IN
     [c \in 1..Len(cells) |-> Field(t, q, cells[c].lo, cells[c].hi)]]

\* Papa.parse(file, {header: true, skipEmptyLines: true}): results.data, the
\* rows after the header row keyed by the header's cells
PapaParse(t) ==
  LET all == Rows(t)
      lines == SelectSeq(all, LAMBDA r : r # << <<>> >>) IN
  IF lines = <<>> THEN <<>>
  ELSE LET header == Head(lines)
           data == Tail(lines) IN
       [i \in 1..Len(data) |->
          [h \in {header[j] : j \in {j \in 1..Len(header) : j <= Len(data[i])}} |->
             data[i][CHOOSE j \in 1..Len(header) : header[j] = h /\ j <= Len(data[i])]]]

NoParse == [ok |-> FALSE, val |-> <<>>, rest |-> <<>>]

\* JSON.parse of a string literal, after its opening quote
RECURSIVE ReadString(_, _)
ReadString(t, acc) ==
  IF t = <<>> \/ Head(t) = "\n" THEN NoParse
  ELSE IF Head(t) = "\"" THEN [ok |-> TRUE, val |-> acc, rest |-> Tail(t)]
  ELSE IF Head(t) = "\\"
    THEN IF Len(t) < 2 THEN NoParse
         ELSE IF t[2] \in {"\"", "\\"} THEN ReadString(SubSeq(t, 3, Len(t)), Append(acc, t[2]))
         ELSE IF t[2] = "n" THEN ReadString(SubSeq(t, 3, Len(t)), Append(acc, "\n"))
         ELSE NoParse
  ELSE ReadString(Tail(t), Append(acc, Head(t)))

\* JSON.parse of the elements of an array, after "[" or ","
RECURSIVE ReadItems(_, _)
ReadItems(t, acc) ==
  LET u == trimStart(t) IN
  IF u = <<>> \/ Head(u) # "\"" THEN NoParse
  ELSE LET str == ReadString(Tail(u), <<>>)
           v == trimStart(str.rest) IN
       IF ~str.ok \/ v = <<>> THEN NoParse
       ELSE IF Head(v) = "," THEN ReadItems(Tail(v), Append(acc, str.val))
       ELSE IF Head(v) = "]" /\ trimStart(Tail(v)) = <<>>
         THEN [ok |-> TRUE, val |-> Append(acc, str.val), rest |-> <<>>]
         ELSE NoParse

\* JSON.parse of a text that starts with "[": an array of strings, or a throw
JSONparse(t) ==
  LET u == trimStart(Tail(t)) IN
  IF u # <<>> /\ Head(u) = "]"
    THEN IF trimStart(Tail(u)) = <<>> THEN [ok |-> TRUE, val |-> <<>>, rest |-> <<>>]
         ELSE NoParse
    ELSE ReadItems(Tail(t), <<>>)

\* String.prototype.split(",")
RECURSIVE Split(_, _)
Split(t, cur) ==
  IF t = <<>> THEN << cur >>
  ELSE IF Head(t) = "," THEN << cur >> \o Split(Tail(t), <<>>)
  ELSE Split(Tail(t), Append(cur, Head(t)))

\* s.trim().replace(/^['"]|['"]$/g, "")
StripQuotes(s) ==
  LET t == trim(s)
      a == IF t # <<>> /\ Head(t) \in {"'", "\""} THEN Tail(t) ELSE t IN
  IF a # <<>> /\ a[Len(a)] \in {"'", "\""} THEN SubSeq(a, 1, Len(a) - 1) ELSE a

\* parseImagesUrl
parseImagesUrl(raw) ==
  IF raw = undefined \/ raw = <<>> THEN <<>>
  ELSE LET trimmed == trim(raw) IN
       IF trimmed # <<>> /\ Head(trimmed) = "["
         THEN LET parsed == JSONparse(trimmed) IN
              IF parsed.ok THEN parsed.val
              ELSE LET items == Split(SubSeq(trimmed, 2, Len(trimmed) - 1), <<>>) IN
                   SelectSeq([i \in 1..Len(items) |-> StripQuotes(items[i])],
                             LAMBDA x : x # <<>>)
         ELSE IF trimmed # <<>> THEN << trimmed >> ELSE <<>>

\* mapRow: the normalized row, or no row (null) when the business id is
\* missing or unparsable
mapRow(raw, fileId) ==
  LET id == Cell(raw, <<"goods_id">>)
      goods_id == Number(id)
      title == Cell(raw, <<"goods_title">>)
      gomer_sync_source_id == Number(Cell(raw, <<"gomer_sync_source_id">>)) IN
  IF id = undefined \/ id = <<>> \/ goods_id = NaN
    THEN <<>>
    ELSE << [goods_id |-> goods_id,
             goods_title |-> IF title = undefined THEN <<>> ELSE title,
             gomer_sync_source_id |-> IF gomer_sync_source_id = NaN THEN 0
                                      ELSE gomer_sync_source_id,
             goods_images_url |-> parseImagesUrl(Cell(raw, <<"goods_images_url">>)),
             fileId |-> fileId] >>

Msg(t, rows, a, b) == [type |-> t, rows |-> rows, a |-> a, b |-> b]

\* not the source: the buffer is flushed one row late
BufferFullLate(buf) == Len(buf) > CHUNK_SIZE
\* buffer.length >= CHUNK_SIZE
BufferFull(buf) == Len(buf) >= CHUNK_SIZE

\* body of the `for (const raw of results.data)` loop of the chunk callback
RECURSIVE Feed(_, _, _, _, _, _)
Feed(rows, fileId, buf, processed, total, out) ==
  IF rows = <<>>
    THEN [buf |-> buf, processed |-> processed, out |-> out]
    ELSE
      LET row == mapRow(Head(rows), fileId) IN
      IF row = <<>>
        THEN Feed(Tail(rows), fileId, buf, processed, total, out)
        ELSE
          LET buf2 == buf \o row
              p2 == processed + 1 IN
          IF BufferFull(buf2)
            THEN Feed(Tail(rows), fileId, <<>>, p2, total,
                      out \o << Msg("CHUNK", buf2, 0, 0), Msg("PROGRESS", <<>>, p2, total) >>)
            ELSE Feed(Tail(rows), fileId, buf2, p2, total, out)

\* flush()
flush(buf) == IF buf = <<>> THEN <<>> ELSE << Msg("CHUNK", buf, 0, 0) >>

\* file is the File of the PARSE message, rest its rows not yet handed to the
\* chunk callback; sent records every message the worker posted (history)
NoWorker == [st |-> "none", fileId |-> 0, file |-> <<>>, rest |-> <<>>, buf |-> <<>>,
             processed |-> 0, total |-> 0, sent |-> <<>>]

\* Papa delivers the next n raw rows to the chunk callback
WorkerChunk(k, n) ==
  /\ wk[k].st = "running"
  /\ n \in 1..Len(wk[k].rest)
  /\ LET w == wk[k]
         total == w.total + n
         r == Feed(SubSeq(w.rest, 1, n), w.fileId, w.buf, w.processed, total, <<>>) IN
       /\ wk' = [wk EXCEPT ![k] = [w EXCEPT !.rest = SubSeq(w.rest, n + 1, Len(w.rest)),
                                            !.buf = r.buf, !.processed = r.processed,
                                            !.total = total, !.sent = @ \o r.out]]
       /\ chan' = [chan EXCEPT ![k] = @ \o r.out]
  /\ UNCHANGED <<dbVars, impVars, selVars, histVars, uiVars, exVars>>

\* a DONE message whose totalRows is the number of raw rows read
doneMsgRead(w) == Msg("DONE", <<>>, w.total, 0)

\* doneMsg: { type: "DONE", totalRows: processedRows, fileId }
doneMsg(w) == Msg("DONE", <<>>, w.processed, 0)

\* Papa's complete callback
WorkerComplete(k) ==
  /\ wk[k].st = "running"
  /\ wk[k].rest = <<>>
  /\ LET out == flush(wk[k].buf) \o << doneMsg(wk[k]) >> IN
       /\ wk' = [wk EXCEPT ![k].st = "ended", ![k].buf = <<>>, ![k].sent = @ \o out]
       /\ chan' = [chan EXCEPT ![k] = @ \o out]
  /\ UNCHANGED <<dbVars, impVars, selVars, histVars, uiVars, exVars>>

\* Papa's error callback (the file cannot be read or decoded)
WorkerError(k) ==
  /\ wk[k].st = "running"
  /\ wk' = [wk EXCEPT ![k].st = "ended", ![k].sent = @ \o << Msg("ERROR", <<>>, 0, 0) >>]
  /\ chan' = [chan EXCEPT ![k] = @ \o << Msg("ERROR", <<>>, 0, 0) >>]
  /\ UNCHANGED <<dbVars, impVars, selVars, histVars, uiVars, exVars>>

\* an uncaught fault inside the worker: the owner's worker.onerror fires
WorkerCrash(k) ==
  /\ wk[k].st = "running"
  /\ wk' = [wk EXCEPT ![k].st = "ended"]
  /\ chan' = [chan EXCEPT ![k] = @ \o << Msg("CRASH", <<>>, 0, 0) >>]
  /\ UNCHANGED <<dbVars, impVars, selVars, histVars, uiVars, exVars>>

\* ------------------------------------------------------------------ db.ts
Op(o, id, rows, total, k) == [op |-> o, id |-> id, rows |-> rows, total |-> total, k |-> k]

\* object stores a transaction locks
Scope(o) ==
  CASE o.op \in {"create", "update"} -> {"csvFiles"}
    [] o.op = "bulkAdd" -> {"goods"}
    [] OTHER -> {"csvFiles", "goods"}

\* IndexedDB runs transactions with overlapping scopes in creation order
CanCommit(i) ==
  /\ i \in 1..Len(dbq)
  /\ \A j \in 1..(i - 1) : Scope(dbq[j]) \cap Scope(dbq[i]) = {}

Without(q, i) == SubSeq(q, 1, i - 1) \o SubSeq(q, i + 1, Len(q))

\* countByFileId
countByFileId(g, id) == Cardinality({i \in 1..Len(g) : g[i].fileId = id})

\* GoodsRepository.getByFileId: the dataset's records in primary-key order
getByFileId(g, id) == SelectSeq(g, LAMBDA r : r.fileId = id)

\* not the source: the range is taken over the whole table
getPaginatedAnyFile(g, id, page, pageSize) ==
  SubSeq(g, page * pageSize + 1,
         IF (page + 1) * pageSize < Len(g) THEN (page + 1) * pageSize ELSE Len(g))
\* GoodsRepository.getByFileIdPaginated: offset(page * pageSize).limit(pageSize)
getByFileIdPaginated(g, id, page, pageSize) ==
  LET all == getByFileId(g, id)
      hi == IF page * pageSize + pageSize < Len(all) THEN page * pageSize + pageSize ELSE Len(all) IN
  SubSeq(all, page * pageSize + 1, hi)

\* the effect of CsvFileRepository.remove on the two tables
RemoveGoods(g, id) == SelectSeq(g, LAMBDA r : r.fileId # id)
RemoveRow(d, id) == [x \in DOMAIN d \ {id} |-> d[x]]

\* CsvFileRepository.update: Dexie's update of a missing key changes nothing
UpdateRow(d, id, total) ==
  IF id \in DOMAIN d THEN [d EXCEPT ![id].totalRows = total] ELSE d

\* CsvFileRepository.create
CreateRow(d, id) == [x \in DOMAIN d \cup {id} |-> IF x = id THEN [totalRows |-> 0] ELSE d[x]]


\* ---------------------------------------------------------- useSelection.ts
\* localStorage.removeItem / setItem on the sel_file_<id> keys
RemoveItem(ls, id) == [x \in DOMAIN ls \ {id} |-> ls[x]]
SetItem(ls, id, v) == [x \in DOMAIN ls \cup {id} |-> IF x = id THEN v ELSE ls[x]]

readSelection(ls, id) == IF id \in DOMAIN ls THEN ls[id] ELSE {}

writeSelection(ls, id, sel) == IF sel = {} THEN RemoveItem(ls, id) ELSE SetItem(ls, id, sel)

\* setSelection(next) on the persisted keys: written under activeFileIdRef.current
setSelection(ls, ref, next) == IF ref # 0 THEN writeSelection(ls, ref, next) ELSE ls

\* history kept at setActiveFileId(id): the selection the dataset being left had
Leave(left, act, sel, id) == IF act # 0 /\ act # id THEN SetItem(left, act, sel) ELSE left

\* the component has re-rendered since the last state change, so the ref
\* assigned during render holds the current activeFileId
Rendered == activeFileIdRef = activeFileId

\* ------------------------------------- routes/products.tsx: VirtualizedGrid
\* no grid is mounted (the empty state is shown)
NoGrid == [file |-> 0, loadedPages |-> {}, inflight |-> {}, goods |-> <<>>,
           lastAnchorIdx |-> -1, issued |-> <<>>, again |-> {}, log |-> <<>>,
           scrollTop |-> 0,     \* scrollRef.current.scrollTop
           scrollTimers |-> 0,  \* timeouts of handleScroll set and neither fired nor cleared
           restore |-> 0,       \* offset the pending animation frame restores, 0 = none
           burst |-> 0,         \* history: scroll events since the last write
           scrolled |-> FALSE]  \* history: a scroll event happened

\* the restore-scroll effect of a mount: the offset read from sessionStorage,
\* 0 when there is none (`!saved`, `!pos` with pos = Number(saved))
SavedPos(ss, id) ==
  IF id \notin DOMAIN ss \/ ss[id] = <<>> THEN 0
  ELSE IF Number(ss[id]) = NaN THEN 0 ELSE Number(ss[id])

\* loadPage without the loadedPages.current.add(page)
loadPageNoMark(g, page) ==
  IF page \in g.loadedPages
    THEN g
    ELSE [g EXCEPT !.inflight = @ \cup {page},
                   !.issued = [p \in DOMAIN @ \cup {page} |->
                                 IF p \in DOMAIN @ THEN @[p] + (IF p = page THEN 1 ELSE 0) ELSE 1]]

\* loadPage(page) up to its await: the page is marked and its fetch issued.
\* issued counts the getByFileIdPaginated calls per page (history).
loadPage(g, page) ==
  IF page \in g.loadedPages
    THEN g
    ELSE [g EXCEPT !.loadedPages = @ \cup {page},
                   !.inflight = @ \cup {page},
                   !.issued = [p \in DOMAIN @ \cup {page} |->
                                 IF p \in DOMAIN @ THEN @[p] + (IF p = page THEN 1 ELSE 0) ELSE 1]]

\* a fresh grid under key = id: new refs and state, then the effects
\* loadPage(0) and restore scroll (which requests an animation frame)
Mount(id) == loadPage([NoGrid EXCEPT !.file = id, !.restore = SavedPos(ssScroll, id)], 0)

\* the dataset whose grid the page renders: `activeFile && activeFileId`
GridTarget(act, ds) == IF act # 0 /\ act \in DOMAIN ds THEN act ELSE 0

\* the grid after a render of the page: kept while its key is unchanged
Remount(g, act, ds) ==
  IF g.file = GridTarget(act, ds) THEN g
  ELSE IF GridTarget(act, ds) = 0 THEN NoGrid
  ELSE Mount(GridTarget(act, ds))

\* a render of the component: activeFileIdRef.current = activeFileId, and
\* the grid is mounted, kept or unmounted by its key
Render ==
  /\ ~Rendered \/ grid.file # GridTarget(activeFileId, datasets)
  /\ activeFileIdRef' = activeFileId
  /\ grid' = Remount(grid, activeFileId, datasets)
  /\ UNCHANGED <<dbVars, impVars, wkVars, histVars, activeFileId, selection, lsSel, lsActive,
                 selAllQ, leftSel, ssScroll, exVars>>

\* ---------------------------------------------------------- useCSVImport.ts
NoImport == [phase |-> "none", fileId |-> 0, file |-> <<>>, total |-> 0]

\* worker.terminate(): the worker stops and its undelivered messages are dropped
Terminate(w, k) == IF k = 0 THEN w ELSE [w EXCEPT ![k].st = "terminated"]
Drop(c, k) == IF k = 0 THEN c ELSE [c EXCEPT ![k] = <<>>]

\* importFile up to its first await: reset, then csvFileRepo.create is issued
ImportFile(f) ==
  /\ Rendered
  /\ \E k \in Attempts :
       /\ imp[k].phase = "none"
       /\ \A j \in 1..(k - 1) : imp[j].phase # "none"
       /\ imp' = [imp EXCEPT ![k] = [phase |-> "creating", fileId |-> 0, file |-> f, total |-> 0]]
       /\ dbq' = Append(dbq, Op("create", 0, <<>>, 0, k))
  /\ status' = "parsing"
  /\ error' = "null"
  /\ progress' = 0
  /\ processedRows' = 0
  /\ pendingChunks' = <<>>
  /\ isSaving' = FALSE
  /\ UNCHANGED <<datasets, nextId, goods, workerRef, wkVars, selVars, histVars, uiVars, exVars>>

\* csvFileRepo.create resolves: the worker is spawned and told to PARSE
CreateCommit(i) ==
  /\ CanCommit(i)
  /\ dbq[i].op = "create"
  /\ LET k == dbq[i].k IN
       /\ datasets' = CreateRow(datasets, nextId)
       /\ nextId' = nextId + 1
       /\ dbq' = Without(dbq, i)
       /\ imp' = [imp EXCEPT ![k].phase = "listening", ![k].fileId = nextId, ![k].file = <<>>]
       /\ wk' = [wk EXCEPT ![k] = [NoWorker EXCEPT !.st = "running", !.fileId = nextId,
                                                   !.file = imp[k].file,
                                                   !.rest = imp[k].file]]
       /\ workerRef' = k
  /\ UNCHANGED <<goods, status, error, progress, processedRows, pendingChunks, isSaving,
                 chan, selVars, histVars, uiVars, exVars>>

\* Math.round((processed / total) * 100)
Percent(processed, total) == (200 * processed + total) \div (2 * total)

\* case "PROGRESS"
OnProgress(k, m) ==
  /\ progress' = IF m.b > 0 THEN Percent(m.a, m.b) ELSE 0
  /\ processedRows' = m.a
  /\ UNCHANGED <<dbVars, status, error, workerRef, pendingChunks, isSaving, imp, wk,
                 selVars, histVars, uiVars, exVars>>

\* case "CHUNK": push, then drainChunks() up to its first await
OnChunk(k, m) ==
  /\ IF isSaving
       THEN /\ pendingChunks' = Append(pendingChunks, m.rows)
            /\ UNCHANGED <<isSaving, dbq>>
       ELSE /\ isSaving' = TRUE
            /\ pendingChunks' = Tail(Append(pendingChunks, m.rows))
            /\ dbq' = Append(dbq, Op("bulkAdd", 0, Head(Append(pendingChunks, m.rows)), 0, 0))
  /\ UNCHANGED <<datasets, nextId, goods, status, error, progress, processedRows, workerRef,
                 imp, wk, selVars, histVars, uiVars, exVars>>

\* case "DONE" up to the wait for the drain
OnDone(k, m) ==
  /\ status' = "saving"
  /\ progress' = 99
  /\ imp' = [imp EXCEPT ![k].phase = "polling", ![k].total = m.a]
  /\ UNCHANGED <<dbVars, error, processedRows, workerRef, pendingChunks, isSaving, wk,
                 selVars, histVars, uiVars, exVars>>

\* case "ERROR" up to the await of csvFileRepo.remove
OnError(k, m) ==
  /\ dbq' = Append(dbq, Op("removeErr", imp[k].fileId, <<>>, 0, k))
  /\ imp' = [imp EXCEPT ![k].phase = "removing"]
  /\ UNCHANGED <<datasets, nextId, goods, status, error, progress, processedRows, workerRef,
                 pendingChunks, isSaving, wk, selVars, histVars, uiVars, exVars>>

\* worker.onerror
OnCrash(k, m) ==
  /\ status' = "error"
  /\ error' = "crash"
  /\ progress' = 0
  /\ processedRows' = 0
  /\ wk' = Terminate(wk, k)
  /\ workerRef' = 0
  /\ imp' = [imp EXCEPT ![k].phase = "crashed"]
  /\ UNCHANGED <<dbVars, pendingChunks, isSaving, selVars, histVars, uiVars, exVars>>

\* the interactive thread handles the next message of worker k
Deliver(k) ==
  /\ chan[k] # <<>>
  /\ chan' = [chan EXCEPT ![k] = Tail(@)]
  /\ LET m == Head(chan[k]) IN
       CASE m.type = "PROGRESS" -> OnProgress(k, m)
         [] m.type = "CHUNK" -> OnChunk(k, m)
         [] m.type = "DONE" -> OnDone(k, m)
         [] m.type = "ERROR" -> OnError(k, m)
         [] OTHER -> OnCrash(k, m)

\* the 100 ms interval of the DONE handler finds the queue drained:
\* csvFileRepo.update is issued
Poll(k) ==
  /\ imp[k].phase = "polling"
  /\ pendingChunks = <<>>
  /\ ~isSaving
  /\ dbq' = Append(dbq, Op("update", imp[k].fileId, <<>>, imp[k].total, k))
  /\ imp' = [imp EXCEPT ![k].phase = "updating"]
  /\ UNCHANGED <<datasets, nextId, goods, status, error, progress, processedRows, workerRef,
                 pendingChunks, isSaving, wkVars, selVars, histVars, uiVars, exVars>>

\* csvFileRepo.update resolves: the rest of the DONE handler, with
\* onSuccess = setActiveFileId of the page
UpdateCommit(i) ==
  /\ CanCommit(i)
  /\ dbq[i].op = "update"
  /\ LET k == dbq[i].k
         id == dbq[i].id IN
       /\ datasets' = UpdateRow(datasets, id, dbq[i].total)
       /\ dbq' = Without(dbq, i)
       /\ status' = "done"
       /\ progress' = 100
       /\ processedRows' = dbq[i].total
       /\ error' = "null"
       /\ wk' = Terminate(wk, k)
       /\ chan' = Drop(chan, k)
       /\ workerRef' = 0
       /\ imp' = [imp EXCEPT ![k].phase = "done"]
       /\ activeFileId' = id
       /\ lsActive' = id
       /\ selection' = readSelection(lsSel, id)
       /\ leftSel' = Leave(leftSel, activeFileId, selection, id)
  /\ UNCHANGED <<nextId, goods, pendingChunks, isSaving, activeFileIdRef, lsSel, histVars,
                 grid, selAllQ, ssScroll, exVars>>

\* db.goods.bulkAdd resolves: drainChunks resumes its loop
BulkAddCommit(i) ==
  /\ CanCommit(i)
  /\ dbq[i].op = "bulkAdd"
  /\ goods' = goods \o dbq[i].rows
  /\ IF pendingChunks # <<>>
       THEN /\ dbq' = Append(Without(dbq, i), Op("bulkAdd", 0, Head(pendingChunks), 0, 0))
            /\ pendingChunks' = Tail(pendingChunks)
            /\ UNCHANGED isSaving
       ELSE /\ dbq' = Without(dbq, i)
            /\ isSaving' = FALSE
            /\ UNCHANGED pendingChunks
  /\ UNCHANGED <<datasets, nextId, status, error, progress, processedRows, workerRef, imp,
                 wkVars, selVars, histVars, uiVars, exVars>>

\* db.goods.bulkAdd rejects (quota, aborted transaction): drainChunks throws
\* out of its loop and nothing catches it
BulkAddFail(i) ==
  /\ CanCommit(i)
  /\ dbq[i].op = "bulkAdd"
  /\ dbq' = Without(dbq, i)
  /\ failed' = failed \cup {dbq[i].rows[1].fileId}
  /\ UNCHANGED <<datasets, nextId, goods, impVars, wkVars, selVars, cancelled, discarded, deleted, uiVars, exVars>>

\* csvFileRepo.remove of the ERROR handler resolves: the rest of the handler
RemoveErrCommit(i) ==
  /\ CanCommit(i)
  /\ dbq[i].op = "removeErr"
  /\ LET k == dbq[i].k
         id == dbq[i].id IN
       /\ goods' = RemoveGoods(goods, id)
       /\ datasets' = RemoveRow(datasets, id)
       /\ dbq' = Without(dbq, i)
       /\ status' = "error"
       /\ progress' = 0
       /\ processedRows' = 0
       /\ error' = "decode"
       /\ wk' = Terminate(wk, k)
       /\ chan' = Drop(chan, k)
       /\ workerRef' = 0
       /\ imp' = [imp EXCEPT ![k].phase = "error"]
  /\ UNCHANGED <<nextId, pendingChunks, isSaving, selVars, histVars, uiVars, exVars>>

\* cancel(); the button is shown while the status is parsing or saving
Cancel ==
  /\ Rendered
  /\ status \in {"parsing", "saving"}
  /\ wk' = Terminate(wk, workerRef)
  /\ chan' = Drop(chan, workerRef)
  /\ workerRef' = 0
  /\ status' = "idle"
  /\ progress' = 0
  /\ processedRows' = 0
  /\ error' = "null"
  /\ cancelled' = cancelled \cup ({workerRef} \ {0})
  /\ discarded' = discarded \cup {pendingChunks[i] : i \in 1..Len(pendingChunks)}
  /\ UNCHANGED <<dbVars, pendingChunks, isSaving, imp, selVars, failed, deleted, uiVars, exVars>>


\* ------------------------------------------------------- routes/products.tsx
\* clearAll with the removeItem moved inside the `if`
clearAllSelKeyOnlyIfActive(ref, act, sel, ls, lsa, id) ==
  IF ref = id
    THEN [act |-> 0, sel |-> {}, ls |-> RemoveItem(ls, id), lsa |-> 0]
    ELSE [act |-> act, sel |-> sel, ls |-> ls, lsa |-> lsa]

\* clearAll(fileId) of useSelection, as a change of (activeFileId, selection,
\* lsSel, lsActive)
clearAllSel(ref, act, sel, ls, lsa, id) ==
  IF ref = id
    THEN [act |-> 0, sel |-> {}, ls |-> RemoveItem(ls, id), lsa |-> 0]
    ELSE [act |-> act, sel |-> sel, ls |-> RemoveItem(ls, id), lsa |-> lsa]

\* handleDelete up to its await: csvFileRepo.remove is issued.  The button
\* belongs to a listed dataset; one removal per dataset is in flight at a time.
HandleDelete(id) ==
  /\ Rendered
  /\ id \in DOMAIN datasets
  /\ \A i \in 1..Len(dbq) : ~(dbq[i].op = "removeDel" /\ dbq[i].id = id)
  /\ dbq' = Append(dbq, Op("removeDel", id, <<>>, 0, 0))
  /\ UNCHANGED <<datasets, nextId, goods, impVars, wkVars, selVars, histVars, uiVars, exVars>>

\* csvFileRepo.remove of handleDelete resolves: clearAll(id)
RemoveDelCommit(i) ==
  /\ CanCommit(i)
  /\ dbq[i].op = "removeDel"
  /\ LET id == dbq[i].id
         c == clearAllSel(activeFileIdRef, activeFileId, selection, lsSel, lsActive, id) IN
       /\ goods' = RemoveGoods(goods, id)
       /\ datasets' = RemoveRow(datasets, id)
       /\ dbq' = Without(dbq, i)
       /\ activeFileId' = c.act
       /\ selection' = c.sel
       /\ lsSel' = c.ls
       /\ lsActive' = c.lsa
       /\ deleted' = IF countByFileId(goods, id) > 0 /\ id \in DOMAIN lsSel
                       THEN deleted \cup {id} ELSE deleted
  /\ UNCHANGED <<nextId, impVars, wkVars, activeFileIdRef, cancelled, discarded, failed, uiVars, exVars>>

\* handleFileSwitch -> setActiveFileId(id), from a click on a listed dataset;
\* the click's state updates are rendered before the next event
HandleFileSwitch(id) ==
  /\ Rendered
  /\ id \in DOMAIN datasets
  /\ activeFileId' = id
  /\ activeFileIdRef' = id
  /\ lsActive' = id
  /\ selection' = readSelection(lsSel, id)
  /\ leftSel' = Leave(leftSel, activeFileId, selection, id)
  /\ grid' = Remount(grid, id, datasets)
  /\ UNCHANGED <<dbVars, impVars, wkVars, lsSel, histVars, selAllQ, ssScroll, exVars>>

\* the grid of the active dataset is on screen and the page is rendered
GridShown == Rendered /\ grid.file # 0 /\ grid.file = GridTarget(activeFileId, datasets)

\* the range loop with `i < hi` for `i <= hi`
LoadedIdsOpen(g, lo, hi) == {g.goods[i].goods_id : i \in (lo..(hi - 1)) \cap DOMAIN g.goods}

\* the business ids of the loaded records at flat indices lo..hi: the
\* `for (let i = lo; i <= hi; i++)` loop over goodsRef.current
LoadedIds(g, lo, hi) == {g.goods[i].goods_id : i \in (lo..hi) \cap DOMAIN g.goods}

\* the toggle branch with add for has/delete/add
toggleAddOnly(sel, goodsId) == sel \cup {goodsId}

\* next.has(goodsId) ? next.delete(goodsId) : next.add(goodsId)
toggle(sel, goodsId) == IF goodsId \in sel THEN sel \ {goodsId} ELSE sel \cup {goodsId}

\* lastAnchorIdx assigned in both branches
nextAnchorAlways(a, idx, shiftKey) == idx

\* lastAnchorIdx.current after handleSelect: assigned in the else branch only
nextAnchor(a, idx, shiftKey) == IF shiftKey /\ a >= 0 THEN a ELSE idx

\* history: the last two handleSelect gestures
Logged(log, idx, ranged) ==
  IF log = <<>> THEN << [idx |-> idx, ranged |-> ranged] >>
  ELSE << log[Len(log)], [idx |-> idx, ranged |-> ranged] >>

\* handleSelect(goodsId, idx, shiftKey) from a click on the card rendered at
\* flat index idx: range extension from the anchor, or toggle
HandleSelect(idx, shiftKey) ==
  /\ GridShown
  /\ idx \in DOMAIN grid.goods
  /\ LET goodsId == grid.goods[idx].goods_id
         a == grid.lastAnchorIdx
         lo == IF a < idx THEN a ELSE idx
         hi == IF a > idx THEN a ELSE idx
         next == IF shiftKey /\ a >= 0
                   THEN selection \cup LoadedIds(grid, lo, hi)
                   ELSE toggle(selection, goodsId) IN
       /\ selection' = next
       /\ lsSel' = setSelection(lsSel, activeFileIdRef, next)
       /\ grid' = [grid EXCEPT !.lastAnchorIdx = nextAnchor(a, idx, shiftKey),
                               !.log = Logged(@, idx, shiftKey /\ a >= 0)]
  /\ UNCHANGED <<dbVars, impVars, wkVars, activeFileId, activeFileIdRef, lsActive, histVars,
                 selAllQ, leftSel, ssScroll, exVars>>

\* Math.ceil(total / cols)
CeilDiv(a, b) == (a + b - 1) \div b

\* the `for (let p = 0; p <= neededPage; p++)` loop of onChange
RECURSIVE RequestPages(_, _, _)
RequestPages(g, p, neededPage) ==
  IF p > neededPage THEN g
  ELSE RequestPages(IF p \notin g.loadedPages THEN loadPage(g, p) ELSE g, p + 1, neededPage)

\* the lookahead taken in rows of cards, not converted through cols
NeededPageRows(endRow, cols, total) ==
  LET want == endRow + AheadRows
      lastItemIndex == IF want < total - 1 THEN want ELSE total - 1 IN
  lastItemIndex \div PAGE_SIZE

\* Math.floor(Math.min((endRow + 6) * cols, total - 1) / PAGE_SIZE), the
\* lookahead margin of 6 rows being AheadRows
NeededPage(endRow, cols, total) ==
  LET want == (endRow + AheadRows) * cols
      lastItemIndex == IF want < total - 1 THEN want ELSE total - 1 IN
  lastItemIndex \div PAGE_SIZE

\* virtualizer.onChange with a visible range ending at row endRow while the
\* layout has cols columns (cols is read here only, so a resize is the choice
\* of another value); again records the pages asked for once more (history)
OnChange(endRow, cols) ==
  /\ GridShown
  /\ LET total == datasets[grid.file].totalRows
         rowCount == CeilDiv(total, cols)
         neededPage == NeededPage(endRow, cols, total)
         g == RequestPages(grid, 0, neededPage) IN
       /\ endRow = 0 \/ endRow < rowCount
       /\ grid' = [g EXCEPT !.again = @ \cup ((0..neededPage) \cap grid.loadedPages)]
  /\ UNCHANGED <<dbVars, impVars, wkVars, selVars, histVars, selAllQ, leftSel, ssScroll, exVars>>

\* the rows of the page put into an empty array instead of a copy of prev
mergeFresh(prev, rows, page) ==
  [x \in {page * PAGE_SIZE + i - 1 : i \in 1..Len(rows)} |-> rows[x - page * PAGE_SIZE + 1]]

\* the updater of setGoods: a copy of prev with next[page * PAGE_SIZE + i] = r
\* for every row r of the page (the array is sparse: a function from the
\* flat indices that hold a record)
merge(prev, rows, page) ==
  LET at == {page * PAGE_SIZE + i - 1 : i \in 1..Len(rows)} IN
  [x \in DOMAIN prev \cup at |-> IF x \in at THEN rows[x - page * PAGE_SIZE + 1] ELSE prev[x]]

\* getByFileIdPaginated of loadPage(page) resolves: setGoods writes the rows
\* at page * PAGE_SIZE + i
FetchCommit(page) ==
  /\ page \in grid.inflight
  /\ LET rows == getByFileIdPaginated(goods, grid.file, page, PAGE_SIZE) IN
       grid' = [grid EXCEPT !.inflight = @ \ {page},
                            !.goods = merge(@, rows, page)]
  /\ UNCHANGED <<dbVars, impVars, wkVars, selVars, histVars, selAllQ, leftSel, ssScroll, exVars>>

\* handleScroll with the setTimeout but without the clearTimeout
handleScrollNoClear(g) == [g EXCEPT !.scrollTimers = @ + 1]

\* handleScroll: clearTimeout of the pending timeout, then setTimeout(.., 150)
handleScroll(g) == [g EXCEPT !.scrollTimers = 1]

\* a scroll event of the grid's scroll element, the user having scrolled it
\* to offset pos; burst counts the events since the last write (history)
Scroll(pos) ==
  /\ GridShown
  /\ pos # grid.scrollTop
  /\ grid.burst < MaxBurst
  /\ grid' = handleScroll([grid EXCEPT !.scrollTop = pos, !.burst = @ + 1, !.scrolled = TRUE])
  /\ UNCHANGED <<dbVars, impVars, wkVars, selVars, histVars, selAllQ, leftSel, ssScroll, exVars>>

\* the animation frame of the restore-scroll effect: scrollTop = pos, and the
\* scroll event this raises when the offset changes
RestoreScroll ==
  /\ grid.file # 0
  /\ grid.restore # 0
  /\ LET g == [grid EXCEPT !.scrollTop = grid.restore, !.restore = 0] IN
       grid' = IF grid.restore # grid.scrollTop
                 THEN handleScroll([g EXCEPT !.burst = IF @ < MaxBurst THEN @ + 1 ELSE @,
                                             !.scrolled = TRUE])
                 ELSE g
  /\ UNCHANGED <<dbVars, impVars, wkVars, selVars, histVars, selAllQ, leftSel, ssScroll, exVars>>

\* a timeout of handleScroll fires, 150 ms after it was set: the offset the
\* scroll element has now is stored under the dataset's key.  The timeouts of
\* an unmounted grid find scrollRef.current null and store nothing; they
\* leave the state with the grid.
ScrollTimerFire ==
  /\ grid.file # 0
  /\ grid.scrollTimers > 0
  /\ grid' = [grid EXCEPT !.scrollTimers = @ - 1, !.burst = 0]
  /\ ssScroll' = SetItem(ssScroll, grid.file, String(grid.scrollTop))
  /\ UNCHANGED <<dbVars, impVars, wkVars, selVars, histVars, selAllQ, leftSel, exVars>>

\* the selection bar is rendered: the grid is shown and count > 0
BarShown == GridShown /\ selection # {}

\* handleSelectAll up to its await: goodsRepo.getByFileId(activeFileId) is
\* issued; the button is rendered while count < total; one query per dataset
\* is pending at a time
HandleSelectAll ==
  /\ BarShown
  /\ Cardinality(selection) < datasets[activeFileId].totalRows
  /\ activeFileId \notin selAllQ
  /\ selAllQ' = selAllQ \cup {activeFileId}
  /\ UNCHANGED <<dbVars, impVars, wkVars, selVars, histVars, grid, leftSel, ssScroll, exVars>>

\* getByFileId of handleSelectAll resolves: setSelection(all business ids)
SelectAllCommit(id) ==
  /\ id \in selAllQ
  /\ selAllQ' = selAllQ \ {id}
  /\ LET all == getByFileId(goods, id)
         next == {all[i].goods_id : i \in 1..Len(all)} IN
       /\ selection' = next
       /\ lsSel' = setSelection(lsSel, activeFileIdRef, next)
  /\ UNCHANGED <<dbVars, impVars, wkVars, activeFileId, activeFileIdRef, lsActive, histVars,
                 grid, leftSel, ssScroll, exVars>>

\* clearSelection, from the selection bar
ClearSelection ==
  /\ BarShown
  /\ selection' = {}
  /\ lsSel' = IF activeFileIdRef # 0 THEN RemoveItem(lsSel, activeFileIdRef) ELSE lsSel
  /\ UNCHANGED <<dbVars, impVars, wkVars, activeFileId, activeFileIdRef, lsActive, histVars,
                 uiVars, exVars>>

\* ------------------------------------------- useExport.ts, exportWorker.ts
ExIdle == [status |-> "idle", progress |-> 0, error |-> "null"]
NoExport == [phase |-> "none", fileId |-> 0, ids |-> <<>>, i |-> 0, rows |-> <<>>, format |-> "csv"]
\* blob is the text of the Blob the worker built
NoExportWorker == [st |-> "none", rows |-> <<>>, format |-> "csv", blob |-> <<>>]

\* Array.from(selectedIds): the selected ids as an array
RECURSIVE ArrayFrom(_)
ArrayFrom(S) ==
  IF S = {} THEN <<>>
  ELSE LET m == CHOOSE x \in S : \A y \in S : x <= y IN << m >> \o ArrayFrom(S \ {m})

\* Math.round(x / y) for x >= 0, y > 0
Round(x, y) == (2 * x + y) \div (2 * y)

\* db.goods.where("goods_id").anyOf(batch).and(g => g.fileId === fileId)
\* mapped to export rows
ExportRow(g) ==
  [goods_id |-> g.goods_id, goods_title |-> g.goods_title,
   gomer_sync_source_id |-> g.gomer_sync_source_id, goods_images_url |-> g.goods_images_url]

\* not the source: the lookup is not narrowed to the dataset
FoundAnyFile(g, fileId, batch) ==
  LET found == SelectSeq(g, LAMBDA r : \E j \in 1..Len(batch) : batch[j] = r.goods_id) IN
  [j \in 1..Len(found) |-> ExportRow(found[j])]
Found(g, fileId, batch) ==
  LET found == SelectSeq(g, LAMBDA r : r.fileId = fileId
                                        /\ \E j \in 1..Len(batch) : batch[j] = r.goods_id) IN
  [j \in 1..Len(found) |-> ExportRow(found[j])]

\* handleExport -> startExport up to its first await: status loading, the
\* query of the first batch of ids is issued.  The export menu is rendered
\* in the selection bar while the status is idle or error.
StartExport(format) ==
  /\ BarShown
  /\ exState.status \in {"idle", "error"}
  /\ \E k \in Exports :
       /\ ex[k].phase = "none"
       /\ \A j \in 1..(k - 1) : ex[j].phase # "none"
       /\ ex' = [ex EXCEPT ![k] = [phase |-> "loading", fileId |-> activeFileId,
                                   ids |-> ArrayFrom(selection), i |-> 0, rows |-> <<>>,
                                   format |-> format]]
  /\ exState' = [status |-> "loading", progress |-> 0, error |-> "null"]
  /\ UNCHANGED <<dbVars, impVars, wkVars, selVars, histVars, uiVars,
                 exWorkerRef, xwk, xchan, timers, exCancelled, produced>>

\* the store query of one batch resolves: rows.push, progress; after the
\* last batch status exporting, the worker is created and sent EXPORT
LoadCommit(k) ==
  /\ ex[k].phase = "loading"
  /\ LET e == ex[k]
         n == Len(e.ids)
         hi == IF e.i + BATCH < n THEN e.i + BATCH ELSE n
         batch == SubSeq(e.ids, e.i + 1, hi)
         rows == e.rows \o Found(goods, e.fileId, batch)
         p == Round((e.i + Len(batch)) * 50, n) IN
       IF e.i + BATCH < n
         THEN /\ ex' = [ex EXCEPT ![k].i = e.i + BATCH, ![k].rows = rows]
              /\ exState' = [exState EXCEPT !.progress = p]
              /\ UNCHANGED <<exWorkerRef, xwk>>
         ELSE /\ ex' = [ex EXCEPT ![k].phase = "exporting", ![k].i = e.i + BATCH, ![k].rows = rows]
              /\ exState' = [exState EXCEPT !.status = "exporting", !.progress = 50]
              /\ exWorkerRef' = k
              /\ xwk' = [xwk EXCEPT ![k] = [NoExportWorker EXCEPT !.st = "running", !.rows = rows,
                                                                 !.format = e.format]]
  /\ UNCHANGED <<dbVars, impVars, wkVars, selVars, histVars, uiVars,
                 xchan, timers, exCancelled, produced>>

\* the store query rejects: the catch of startExport
LoadFail(k) ==
  /\ ex[k].phase = "loading"
  /\ ex' = [ex EXCEPT ![k].phase = "ended"]
  /\ exState' = [status |-> "error", progress |-> 0, error |-> "load"]
  /\ UNCHANGED <<dbVars, impVars, wkVars, selVars, histVars, uiVars,
                 exWorkerRef, xwk, xchan, timers, exCancelled, produced>>

\* Array.prototype.join
RECURSIVE Join(_, _)
Join(parts, sep) ==
  IF parts = <<>> THEN <<>>
  ELSE IF Len(parts) = 1 THEN parts[1]
  ELSE parts[1] \o sep \o Join(Tail(parts), sep)

\* val.replace(/"/g, '""')
RECURSIVE DoubleQuotes(_)
DoubleQuotes(val) ==
  IF val = <<>> THEN <<>>
  ELSE (IF Head(val) = "\"" THEN << "\"", "\"" >> ELSE << Head(val) >>) \o DoubleQuotes(Tail(val))

\* not the source: the value is quoted without doubling its quotes
escapeCSVPlain(val) ==
  IF \E i \in 1..Len(val) : val[i] \in {"\"", ",", "\n", "\r"}
    THEN << "\"" >> \o val \o << "\"" >>
    ELSE val
escapeCSV(val) ==
  IF \E i \in 1..Len(val) : val[i] \in {"\"", ",", "\n", "\r"}
    THEN << "\"" >> \o DoubleQuotes(val) \o << "\"" >>
    ELSE val

CSV_HEADER ==
  Join(<< <<"goods_id">>, <<"goods_title">>, <<"gomer_sync_source_id">>, <<"goods_images_url">> >>,
       << "," >>)

\* JSON.stringify of a string
RECURSIVE JSONchars(_)
JSONchars(str) ==
  IF str = <<>> THEN <<>>
  ELSE (CASE Head(str) = "\"" -> << "\\", "\"" >>
          [] Head(str) = "\\" -> << "\\", "\\" >>
          [] Head(str) = "\n" -> << "\\", "n" >>
          [] OTHER -> << Head(str) >>) \o JSONchars(Tail(str))

JSONstring(str) == << "\"" >> \o JSONchars(str) \o << "\"" >>

\* JSON.stringify of an array of strings
JSONarray(a) ==
  << "[" >> \o Join([i \in 1..Len(a) |-> JSONstring(a[i])], << "," >>) \o << "]" >>

\* JSON.stringify of an export row
JSONrow(row) ==
  << "{" >> \o
  Join(<< JSONstring(<<"goods_id">>) \o << ":" >> \o String(row.goods_id),
          JSONstring(<<"goods_title">>) \o << ":" >> \o JSONstring(row.goods_title),
          JSONstring(<<"gomer_sync_source_id">>) \o << ":" >> \o String(row.gomer_sync_source_id),
          JSONstring(<<"goods_images_url">>) \o << ":" >> \o JSONarray(row.goods_images_url) >>,
       << "," >>) \o
  << "}" >>

rowToCSV(row) ==
  Join(<< String(row.goods_id), escapeCSV(row.goods_title), String(row.gomer_sync_source_id),
          escapeCSV(JSONarray(row.goods_images_url)) >>, << "," >>)

\* goods.slice(i, i + CHUNK); rows is the array `goods` of the EXPORT message
Slice(rows, i) ==
  SubSeq(rows, i + 1, IF i + CHUNK < Len(rows) THEN i + CHUNK ELSE Len(rows))

\* the loop of buildCSV from row i on: the parts pushed, concatenated
RECURSIVE CSVParts(_, _)
CSVParts(rows, i) ==
  IF i >= Len(rows) THEN <<>>
  ELSE LET slice == Slice(rows, i) IN
       Join([j \in 1..Len(slice) |-> rowToCSV(slice[j])], << "\n" >>) \o << "\n" >>
         \o CSVParts(rows, i + CHUNK)

buildCSV(rows) == CSV_HEADER \o << "\n" >> \o CSVParts(rows, 0)

\* not the source: the last chunk is taken to be the one that ends past the rows
isLastStrict(rows, i) == i + CHUNK > Len(rows)
\* const isLast = i + CHUNK >= goods.length
isLast(rows, i) == i + CHUNK >= Len(rows)

\* the loop of buildJSON from row i on
RECURSIVE JSONParts(_, _)
JSONParts(rows, i) ==
  IF i >= Len(rows) THEN <<>>
  ELSE LET slice == Slice(rows, i) IN
       Join([ci \in 1..Len(slice) |->
               JSONrow(slice[ci]) \o (IF isLast(rows, i) /\ ci = Len(slice) THEN <<>>
                                      ELSE << "," >>)],
            << "\n" >>) \o << "\n" >>
         \o JSONParts(rows, i + CHUNK)

buildJSON(rows) == << "[", "\n" >> \o JSONParts(rows, 0) \o << "]" >>

\* the PROGRESS messages of buildCSV / buildJSON: one per CHUNK rows
RECURSIVE BuildProgress(_, _)
BuildProgress(i, n) ==
  IF i >= n THEN <<>>
  ELSE LET len == IF i + CHUNK < n THEN CHUNK ELSE n - i IN
       << Msg("PROGRESS", <<>>, Round((i + len) * 100, n), 0) >> \o BuildProgress(i + CHUNK, n)

\* exportWorker.ts self.onmessage: serialization, then DONE with the blob
ExportWorkerRun(k) ==
  /\ xwk[k].st = "running"
  /\ LET blob == IF xwk[k].format = "csv" THEN buildCSV(xwk[k].rows)
                 ELSE buildJSON(xwk[k].rows) IN
       /\ xwk' = [xwk EXCEPT ![k].st = "ended", ![k].blob = blob]
       /\ xchan' = [xchan EXCEPT ![k] = @ \o BuildProgress(0, Len(xwk[k].rows))
                                          \o << Msg("DONE", blob, 0, 0) >>]
  /\ UNCHANGED <<dbVars, impVars, wkVars, selVars, histVars, uiVars,
                 exState, exWorkerRef, ex, timers, exCancelled, produced>>

\* exportWorker.ts self.onmessage: the serialization throws, ERROR is posted
ExportWorkerError(k) ==
  /\ xwk[k].st = "running"
  /\ xwk' = [xwk EXCEPT ![k].st = "ended"]
  /\ xchan' = [xchan EXCEPT ![k] = @ \o << Msg("ERROR", <<>>, 0, 0) >>]
  /\ UNCHANGED <<dbVars, impVars, wkVars, selVars, histVars, uiVars,
                 exState, exWorkerRef, ex, timers, exCancelled, produced>>

\* worker.onmessage / worker.onerror of export k handles its next message
DeliverExport(k) ==
  /\ xchan[k] # <<>>
  /\ LET m == Head(xchan[k]) IN
       CASE m.type = "PROGRESS" ->
              /\ exState' = [exState EXCEPT !.progress = 50 + Round(m.a, 2)]
              /\ xchan' = [xchan EXCEPT ![k] = Tail(@)]
              /\ UNCHANGED <<exWorkerRef, ex, xwk, timers, produced>>
         [] m.type = "DONE" ->
              /\ produced' = produced \cup {k}
              /\ exState' = [status |-> "done", progress |-> 100, error |-> "null"]
              /\ xwk' = Terminate(xwk, k)
              /\ xchan' = Drop(xchan, k)
              /\ exWorkerRef' = 0
              /\ ex' = [ex EXCEPT ![k].phase = "ended"]
              /\ timers' = timers \cup {k}
         [] OTHER ->
              /\ exState' = [status |-> "error", progress |-> 0, error |-> "export"]
              /\ xwk' = Terminate(xwk, k)
              /\ xchan' = Drop(xchan, k)
              /\ exWorkerRef' = 0
              /\ ex' = [ex EXCEPT ![k].phase = "ended"]
              /\ UNCHANGED <<timers, produced>>
  /\ UNCHANGED <<dbVars, impVars, wkVars, selVars, histVars, uiVars, exCancelled>>

\* the setTimeout(..., 2000) of the DONE handler of export k fires
AutoRevert(k) ==
  /\ k \in timers
  /\ timers' = timers \ {k}
  /\ exState' = ExIdle
  /\ UNCHANGED <<dbVars, impVars, wkVars, selVars, histVars, uiVars,
                 exWorkerRef, ex, xwk, xchan, exCancelled, produced>>

\* cancel() of useExport; its button is rendered while the status is
\* loading or exporting
CancelExport ==
  /\ BarShown
  /\ exState.status \in {"loading", "exporting"}
  /\ xwk' = Terminate(xwk, exWorkerRef)
  /\ xchan' = Drop(xchan, exWorkerRef)
  /\ exWorkerRef' = 0
  /\ exState' = ExIdle
  /\ exCancelled' = exCancelled \cup {k \in Exports : ex[k].phase \in {"loading", "exporting"}}
  /\ UNCHANGED <<dbVars, impVars, wkVars, selVars, histVars, uiVars, ex, timers, produced>>

\* ------------------------------------------------------------- specification
Init ==
  /\ datasets = <<>>
  /\ nextId = 1
  /\ goods = <<>>
  /\ dbq = <<>>
  /\ status = "idle"
  /\ error = "null"
  /\ progress = 0
  /\ processedRows = 0
  /\ workerRef = 0
  /\ pendingChunks = <<>>
  /\ isSaving = FALSE
  /\ imp = [k \in Attempts |-> NoImport]
  /\ wk = [k \in Attempts |-> NoWorker]
  /\ chan = [k \in Attempts |-> <<>>]
  /\ activeFileId = 0
  /\ activeFileIdRef = 0
  /\ selection = {}
  /\ lsSel = <<>>
  /\ lsActive = 0
  /\ cancelled = {}
  /\ discarded = {}
  /\ failed = {}
  /\ deleted = {}
  /\ grid = NoGrid
  /\ selAllQ = {}
  /\ leftSel = <<>>
  /\ ssScroll = <<>>
  /\ exState = ExIdle
  /\ exWorkerRef = 0
  /\ ex = [k \in Exports |-> NoExport]
  /\ xwk = [k \in Exports |-> NoExportWorker]
  /\ xchan = [k \in Exports |-> <<>>]
  /\ timers = {}
  /\ exCancelled = {}
  /\ produced = {}

\* ---- the import pipeline: imports, worker faults, store faults, cancel
Next ==
  \/ \E f \in Files : ImportFile(f)
  \/ \E i \in 1..Len(dbq) : CreateCommit(i)
  \/ \E k \in Attempts : \E n \in 1..MaxRows : WorkerChunk(k, n)
  \/ \E k \in Attempts : WorkerComplete(k)
  \/ \E k \in Attempts : WorkerError(k)
  \/ \E k \in Attempts : WorkerCrash(k)
  \/ \E k \in Attempts : Deliver(k)
  \/ \E k \in Attempts : Poll(k)
  \/ \E i \in 1..Len(dbq) : UpdateCommit(i)
  \/ \E i \in 1..Len(dbq) : BulkAddCommit(i)
  \/ \E i \in 1..Len(dbq) : BulkAddFail(i)
  \/ \E i \in 1..Len(dbq) : RemoveErrCommit(i)
  \/ Cancel
  \/ Render

Spec == Init /\ [][Next]_vars

\* ---- imports that decode and persist without faults, with dataset deletion
NextDelete ==
  \/ \E f \in Files : ImportFile(f)
  \/ \E i \in 1..Len(dbq) : CreateCommit(i)
  \/ \E k \in Attempts : \E n \in 1..MaxRows : WorkerChunk(k, n)
  \/ \E k \in Attempts : WorkerComplete(k)
  \/ \E k \in Attempts : Deliver(k)
  \/ \E k \in Attempts : Poll(k)
  \/ \E i \in 1..Len(dbq) : UpdateCommit(i)
  \/ \E i \in 1..Len(dbq) : BulkAddCommit(i)
  \/ \E id \in Ids : HandleDelete(id)
  \/ \E i \in 1..Len(dbq) : RemoveDelCommit(i)
  \/ Render

SpecDelete == Init /\ [][NextDelete]_vars

\* ---- a store and a localStorage left by earlier sessions, no import running
RECURSIVE Flat(_)
Flat(msgs) ==
  IF msgs = <<>> THEN <<>> ELSE Head(msgs).rows \o Flat(Tail(msgs))

\* the records a completed import of file f stores under dataset id
ImportedRows(f, id) ==
  LET r == Feed(f, id, <<>>, 0, Len(f), <<>>) IN Flat(r.out \o flush(r.buf))

\* the files whose unparsable rows all come last
StoredFiles ==
  {f \in Files : \A i \in 1..MaxRows : \A j \in 1..i :
     mapRow(f[j], 0) = <<>> => mapRow(f[i], 0) = <<>>}

\* what an earlier session left for one dataset id: nothing, or the records
\* of an imported file and the selection persisted for it
Presets ==
  {[present |-> FALSE, rows |-> <<>>, sel |-> {}]} \cup
  UNION { { [present |-> TRUE, rows |-> ImportedRows(f, 0), sel |-> s] :
              s \in SUBSET {ImportedRows(f, 0)[j].goods_id : j \in 1..Len(ImportedRows(f, 0))} } :
          f \in StoredFiles }

RECURSIVE StoredRows(_, _)
StoredRows(ps, id) ==
  IF id > MaxImports THEN <<>>
  ELSE [j \in 1..Len(ps[id].rows) |-> [ps[id].rows[j] EXCEPT !.fileId = id]]
         \o StoredRows(ps, id + 1)

InitStore ==
  \E ps \in [Ids -> Presets] : \E a \in {0} \cup Ids :
    /\ a # 0 => ps[a].present
    /\ datasets = [id \in {d \in Ids : ps[d].present} |-> [totalRows |-> Len(ps[id].rows)]]
    /\ goods = StoredRows(ps, 1)
    /\ lsSel = [id \in {d \in Ids : ps[d].sel # {}} |-> ps[id].sel]
    /\ lsActive = a
    /\ activeFileId = a
    /\ activeFileIdRef = a
    /\ selection = IF a # 0 THEN ps[a].sel ELSE {}
    /\ nextId = MaxImports + 1
    /\ dbq = <<>>
    /\ status = "idle"
    /\ error = "null"
    /\ progress = 0
    /\ processedRows = 0
    /\ workerRef = 0
    /\ pendingChunks = <<>>
    /\ isSaving = FALSE
    /\ imp = [k \in Attempts |-> NoImport]
    /\ wk = [k \in Attempts |-> NoWorker]
    /\ chan = [k \in Attempts |-> <<>>]
    /\ cancelled = {}
    /\ discarded = {}
    /\ failed = {}
    /\ deleted = {}
    /\ ssScroll = <<>>
    /\ grid = Remount(NoGrid, a, datasets)
    /\ selAllQ = {}
    /\ leftSel = <<>>
    /\ exState = ExIdle
    /\ exWorkerRef = 0
    /\ ex = [k \in Exports |-> NoExport]
    /\ xwk = [k \in Exports |-> NoExportWorker]
    /\ xchan = [k \in Exports |-> <<>>]
    /\ timers = {}
    /\ exCancelled = {}
    /\ produced = {}

NextStore ==
  \/ \E id \in Ids : HandleDelete(id)
  \/ \E i \in 1..Len(dbq) : RemoveDelCommit(i)
  \/ Render

SpecStore == InitStore /\ [][NextStore]_vars

\* the source files of MaxRecords rows
GridFiles ==
  { [i \in 1..MaxRecords |-> RawRow(IF i \in S THEN << Digits[i] >> ELSE << "x" >>)] :
      S \in SUBSET (1..MaxRecords) }

\* ---- one mounted grid: an earlier session left the store, the active
\* dataset holds the records of file f and every other dataset a file without
\* unparsable rows; nothing is selected yet
InitGridOver(stores) ==
  \E a \in Ids : \E f \in GridFiles : \E ss \in stores :
    LET ps == [id \in Ids |-> [rows |-> IF id = a THEN ImportedRows(f, 0)
                                        ELSE ImportedRows([i \in 1..MaxRecords |-> RawRow(<< Digits[i] >>)], 0)]] IN
    /\ ssScroll = ss
    /\ datasets = [id \in Ids |-> [totalRows |-> Len(ps[id].rows)]]
    /\ goods = StoredRows(ps, 1)
    /\ lsSel = <<>>
    /\ lsActive = a
    /\ activeFileId = a
    /\ activeFileIdRef = a
    /\ selection = {}
    /\ nextId = MaxImports + 1
    /\ dbq = <<>>
    /\ status = "idle"
    /\ error = "null"
    /\ progress = 0
    /\ processedRows = 0
    /\ workerRef = 0
    /\ pendingChunks = <<>>
    /\ isSaving = FALSE
    /\ imp = [k \in Attempts |-> NoImport]
    /\ wk = [k \in Attempts |-> NoWorker]
    /\ chan = [k \in Attempts |-> <<>>]
    /\ cancelled = {}
    /\ discarded = {}
    /\ failed = {}
    /\ deleted = {}
    /\ grid = Mount(a)
    /\ selAllQ = {}
    /\ leftSel = <<>>
    /\ exState = ExIdle
    /\ exWorkerRef = 0
    /\ ex = [k \in Exports |-> NoExport]
    /\ xwk = [k \in Exports |-> NoExportWorker]
    /\ xchan = [k \in Exports |-> <<>>]
    /\ timers = {}
    /\ exCancelled = {}
    /\ produced = {}

\* sessionStorage is empty: nothing was scrolled in this tab
InitGrid == InitGridOver({<<>>})

NextGrid ==
  \/ \E endRow \in 0..MaxRecords : \E cols \in 1..MaxCols : OnChange(endRow, cols)
  \/ \E page \in 0..MaxRecords : FetchCommit(page)
  \/ \E idx \in 0..MaxRecords : \E shiftKey \in BOOLEAN : HandleSelect(idx, shiftKey)
  \/ HandleSelectAll
  \/ \E id \in Ids : SelectAllCommit(id)
  \/ ClearSelection

SpecGrid == InitGrid /\ [][NextGrid]_vars

\* ---- the page cache of one mounted grid alone: range reports of the
\* virtualizer and page fetches completing in any order
NextPages ==
  \/ \E endRow \in 0..MaxRecords : \E cols \in 1..MaxCols : OnChange(endRow, cols)
  \/ \E page \in 0..MaxRecords : FetchCommit(page)

SpecPages == InitGrid /\ [][NextPages]_vars

\* what sessionStorage holds after a reload of the tab: nothing, or the
\* offset stored for one dataset
ScrollStores ==
  {<<>>} \cup {SetItem(<<>>, id, String(n)) : id \in Ids, n \in 0..MaxScrollTop}

\* ---- the scroll offset of one mounted grid: scroll events, the restore
\* after the mount and the debounce timeouts
NextScroll ==
  \/ \E pos \in 0..MaxScrollTop : Scroll(pos)
  \/ RestoreScroll
  \/ ScrollTimerFire

SpecScroll == InitGridOver(ScrollStores) /\ [][NextScroll]_vars

\* ---- imports started from the upload button (disabled while an import is
\* parsing or saving) that decode and persist without faults, with dataset
\* switching, plain clicks on the cards of the first page and the selection bar
NextSelect ==
  \/ \E f \in StoredFiles : status \notin {"parsing", "saving"} /\ ImportFile(f)
  \/ \E i \in 1..Len(dbq) : CreateCommit(i)
  \/ \E k \in Attempts : \E n \in 1..MaxRows : WorkerChunk(k, n)
  \/ \E k \in Attempts : WorkerComplete(k)
  \/ \E k \in Attempts : Deliver(k)
  \/ \E k \in Attempts : Poll(k)
  \/ \E i \in 1..Len(dbq) : UpdateCommit(i)
  \/ \E i \in 1..Len(dbq) : BulkAddCommit(i)
  \/ \E id \in Ids : HandleFileSwitch(id)
  \/ \E page \in 0..MaxRows : FetchCommit(page)
  \/ \E idx \in 0..MaxRows : HandleSelect(idx, FALSE)
  \/ HandleSelectAll
  \/ \E id \in Ids : SelectAllCommit(id)
  \/ ClearSelection
  \/ Render

SpecSelect == Init /\ [][NextSelect]_vars

\* ---- one import started from the upload button that decodes and persists
\* without faults; the cells of the business id column are decimal ids, text,
\* blank (a space) or empty
RawCells(i) == {<< Digits[i] >>, << "x" >>, << " " >>, <<>>}

RawFiles ==
  UNION { {f \in [1..n -> {RawRow(c) : c \in UNION {RawCells(i) : i \in 1..MaxRaw}}] :
             \A i \in 1..n : f[i][<<"goods_id">>] \in RawCells(i)} : n \in 0..MaxRaw }

NextParse ==
  \/ \E f \in RawFiles : status = "idle" /\ ImportFile(f)
  \/ \E i \in 1..Len(dbq) : CreateCommit(i)
  \/ \E k \in Attempts : \E n \in 1..MaxRaw : WorkerChunk(k, n)
  \/ \E k \in Attempts : WorkerComplete(k)
  \/ \E k \in Attempts : Deliver(k)
  \/ \E k \in Attempts : Poll(k)
  \/ \E i \in 1..Len(dbq) : UpdateCommit(i)
  \/ \E i \in 1..Len(dbq) : BulkAddCommit(i)
  \/ Render

SpecParse == Init /\ [][NextParse]_vars

\* ---- the export worker on its own: the state right after startExport
\* posted EXPORT with the rows it loaded.  Row i has business id i; the titles
\* hold commas, quotes and line breaks, the image urls quotes.  No row was
\* loaded when the dataset was deleted after the export had been started.
Texts(chars, n) == UNION { [1..m -> chars] : m \in 0..n }

Titles == Texts({"a", ",", "\"", "\n"}, MaxTitle)

ImageLists == UNION { [1..m -> {<< "u" >>, << "\"" >>}] : m \in 0..MaxUrls }

ExportRows ==
  { [i \in 1..n |-> [goods_id |-> i, goods_title |-> title, gomer_sync_source_id |-> i - 1,
                     goods_images_url |-> images]] :
      n \in 0..MaxOut, title \in Titles, images \in ImageLists }

InitBlob ==
  \E rows \in ExportRows : \E format \in {"csv", "json"} :
    LET n == Len(rows)
        ids == {rows[j].goods_id : j \in 1..n}
        asked == IF n = 0 THEN << 1 >> ELSE ArrayFrom(ids)
        act == IF n = 0 THEN 0 ELSE 1 IN
    /\ datasets = [id \in {id \in {1} : n > 0} |-> [totalRows |-> n]]
    /\ goods = [j \in 1..n |-> [goods_id |-> rows[j].goods_id,
                                goods_title |-> rows[j].goods_title,
                                gomer_sync_source_id |-> rows[j].gomer_sync_source_id,
                                goods_images_url |-> rows[j].goods_images_url,
                                fileId |-> 1]]
    /\ lsSel = IF n = 0 THEN <<>> ELSE (1 :> ids)
    /\ lsActive = act
    /\ activeFileId = act
    /\ activeFileIdRef = act
    /\ selection = ids
    /\ nextId = 2
    /\ dbq = <<>>
    /\ status = "idle"
    /\ error = "null"
    /\ progress = 0
    /\ processedRows = 0
    /\ workerRef = 0
    /\ pendingChunks = <<>>
    /\ isSaving = FALSE
    /\ imp = [k \in Attempts |-> NoImport]
    /\ wk = [k \in Attempts |-> NoWorker]
    /\ chan = [k \in Attempts |-> <<>>]
    /\ cancelled = {}
    /\ discarded = {}
    /\ failed = {}
    /\ deleted = {}
    /\ ssScroll = <<>>
    /\ grid = IF n = 0 THEN NoGrid ELSE Mount(1)
    /\ selAllQ = {}
    /\ leftSel = <<>>
    /\ exState = [status |-> "exporting", progress |-> 50, error |-> "null"]
    /\ exWorkerRef = 1
    /\ ex = [k \in Exports |-> IF k = 1
                                 THEN [phase |-> "exporting", fileId |-> 1,
                                       ids |-> asked,
                                       i |-> ((Len(asked) + BATCH - 1) \div BATCH) * BATCH,
                                       rows |-> rows, format |-> format]
                                 ELSE NoExport]
    /\ xwk = [k \in Exports |-> IF k = 1
                                  THEN [NoExportWorker EXCEPT !.st = "running", !.rows = rows,
                                                              !.format = format]
                                  ELSE NoExportWorker]
    /\ xchan = [k \in Exports |-> <<>>]
    /\ timers = {}
    /\ exCancelled = {}
    /\ produced = {}

NextBlob ==
  \/ \E k \in Exports : ExportWorkerRun(k)
  \/ \E k \in Exports : DeliverExport(k)
  \/ \E k \in Exports : AutoRevert(k)

SpecBlob == InitBlob /\ [][NextBlob]_vars

\* ---- the same, and the downloaded file is imported from the upload button
NextRoundTrip ==
  \/ \E k \in Exports : ExportWorkerRun(k)
  \/ \E k \in Exports : DeliverExport(k)
  \/ \E k \in Exports : AutoRevert(k)
  \/ \E e \in produced : status \notin {"parsing", "saving"} /\ ImportFile(PapaParse(xwk[e].blob))
  \/ \E i \in 1..Len(dbq) : CreateCommit(i)
  \/ \E k \in Attempts : \E n \in 1..(MaxOut + 1) : WorkerChunk(k, n)
  \/ \E k \in Attempts : WorkerComplete(k)
  \/ \E k \in Attempts : Deliver(k)
  \/ \E k \in Attempts : Poll(k)
  \/ \E i \in 1..Len(dbq) : UpdateCommit(i)
  \/ \E i \in 1..Len(dbq) : BulkAddCommit(i)
  \/ Render

SpecRoundTrip == InitBlob /\ [][NextRoundTrip]_vars

\* ---- exports of a selection of one dataset left by an earlier session
InitExport ==
  \E a \in Ids : \E f \in StoredFiles : \E S \in SUBSET (1..MaxRows) :
    LET ps == [id \in Ids |-> [rows |-> IF id = a THEN ImportedRows(f, 0)
                                        ELSE ImportedRows([i \in 1..MaxRows |-> RawRow(<< Digits[i] >>)], 0)]] IN
    /\ S # {}
    /\ S \subseteq {ps[a].rows[j].goods_id : j \in 1..Len(ps[a].rows)}
    /\ datasets = [id \in Ids |-> [totalRows |-> Len(ps[id].rows)]]
    /\ goods = StoredRows(ps, 1)
    /\ lsSel = (a :> S)
    /\ lsActive = a
    /\ activeFileId = a
    /\ activeFileIdRef = a
    /\ selection = S
    /\ nextId = MaxImports + 1
    /\ dbq = <<>>
    /\ status = "idle"
    /\ error = "null"
    /\ progress = 0
    /\ processedRows = 0
    /\ workerRef = 0
    /\ pendingChunks = <<>>
    /\ isSaving = FALSE
    /\ imp = [k \in Attempts |-> NoImport]
    /\ wk = [k \in Attempts |-> NoWorker]
    /\ chan = [k \in Attempts |-> <<>>]
    /\ cancelled = {}
    /\ discarded = {}
    /\ failed = {}
    /\ deleted = {}
    /\ ssScroll = <<>>
    /\ grid = Mount(a)
    /\ selAllQ = {}
    /\ leftSel = <<>>
    /\ exState = ExIdle
    /\ exWorkerRef = 0
    /\ ex = [k \in Exports |-> NoExport]
    /\ xwk = [k \in Exports |-> NoExportWorker]
    /\ xchan = [k \in Exports |-> <<>>]
    /\ timers = {}
    /\ exCancelled = {}
    /\ produced = {}

NextExport ==
  \/ \E format \in {"csv", "json"} : StartExport(format)
  \/ \E k \in Exports : LoadCommit(k)
  \/ \E k \in Exports : LoadFail(k)
  \/ \E k \in Exports : ExportWorkerRun(k)
  \/ \E k \in Exports : ExportWorkerError(k)
  \/ \E k \in Exports : DeliverExport(k)
  \/ \E k \in Exports : AutoRevert(k)
  \/ CancelExport

SpecExport == InitExport /\ [][NextExport]_vars

\* ---- the loading phase of exports: the lookups, their failure and cancel
NextLoad ==
  \/ \E format \in {"csv", "json"} : StartExport(format)
  \/ \E k \in Exports : LoadCommit(k)
  \/ \E k \in Exports : LoadFail(k)
  \/ CancelExport

SpecLoad == InitExport /\ [][NextLoad]_vars

\* ------------------------------------------------------------------ claims
\* nothing but a further user action can change the state: no store
\* transaction is outstanding, no worker runs or has undelivered messages,
\* no DONE handler's wait can end, and the page is rendered
Quiescent ==
  /\ dbq = <<>>
  /\ \A k \in Attempts :
       /\ chan[k] = <<>>
       /\ wk[k].st # "running"
       /\ ~(imp[k].phase = "polling" /\ pendingChunks = <<>> /\ ~isSaving)
  /\ Rendered

\* the step in which the DONE handler of attempt k sets the status to done
ReachesDone(k) == imp[k].phase = "updating" /\ imp'[k].phase = "done"

\* the step in which the handleDelete of dataset id resumes after its remove
DeleteFinishes(id) ==
  \E i \in 1..Len(dbq) :
    /\ dbq[i].op = "removeDel"
    /\ dbq[i].id = id
    /\ dbq' = Without(dbq, i)

\* C1: when an import reaches status done, the number of records stored
\* under its dataset id equals the totalRows on its dataset row, which equals
\* the totalRows of the worker's DONE message.
C1_DoneCountEqualsTotalRows ==
  [][\A k \in Attempts :
       ReachesDone(k) =>
         /\ imp[k].fileId \in DOMAIN datasets'
         /\ countByFileId(goods', imp[k].fileId) = datasets'[imp[k].fileId].totalRows
         /\ datasets'[imp[k].fileId].totalRows = imp[k].total]_vars

\* C2: in every reachable state a dataset row with totalRows > 0 has all of
\* those records in the store.
C2_TotalRowsOnlyAfterRecords ==
  \A id \in DOMAIN datasets :
    datasets[id].totalRows > 0 => countByFileId(goods, id) >= datasets[id].totalRows

\* C3: once everything has settled, an import whose worker cancel() terminated
\* has left neither its dataset row nor any record under its id.
C3_CancelLeavesNothing ==
  Quiescent =>
    \A k \in cancelled :
      /\ imp[k].fileId \notin DOMAIN datasets
      /\ countByFileId(goods, imp[k].fileId) = 0

\* C4: a batch that was queued in pendingChunks when cancel() ran is never
\* handed to bulkInsert afterwards.
C4_CancelDiscardsQueuedBatches ==
  \A i \in 1..Len(dbq) : dbq[i].op = "bulkAdd" => dbq[i].rows \notin discarded

\* C5: once everything has settled after the ERROR handler of an import has
\* run to its end, neither the dataset row nor any record under its id
\* remains, the records of batches that were queued or being inserted when
\* the ERROR arrived included.
C5_ErrorRollsBack ==
  Quiescent =>
    \A k \in Attempts :
      imp[k].phase = "error" =>
        /\ imp[k].fileId \notin DOMAIN datasets
        /\ countByFileId(goods, imp[k].fileId) = 0

\* C6: an import one of whose bulk inserts rejected (the user did not cancel
\* it and its worker did not crash) ends in status error with its dataset
\* and records removed; it neither stays in parsing or saving nor reaches
\* done.
C6_InsertFailureSurfaces ==
  Quiescent =>
    \A k \in Attempts \ cancelled :
      (imp[k].fileId \in failed /\ imp[k].phase # "crashed") =>
        /\ imp[k].phase = "error"
        /\ imp[k].fileId \notin DOMAIN datasets
        /\ countByFileId(goods, imp[k].fileId) = 0

\* C7: a crash of the import worker is handled like a reported ERROR: the
\* worker is terminated and the dataset row and all its records are deleted.
C7_CrashRollsBack ==
  \A k \in Attempts :
    imp[k].phase = "crashed" =>
      /\ wk[k].st = "terminated"
      /\ Quiescent =>
           /\ imp[k].fileId \notin DOMAIN datasets
           /\ countByFileId(goods, imp[k].fileId) = 0

\* C8: every stored record's fileId refers to a dataset row that exists.
C8_NoOrphanRecords ==
  \A i \in 1..Len(goods) : goods[i].fileId \in DOMAIN datasets

\* C9: when the deletion of a dataset that has records and a stored selection
\* finishes, the dataset is not listed, countByFileId of its id is 0 and its
\* sel_file_<id> key is absent.
C9_DeleteLeavesNothing ==
  [][\A id \in Ids :
       (DeleteFinishes(id) /\ countByFileId(goods, id) > 0 /\ id \in DOMAIN lsSel) =>
         /\ id \notin DOMAIN datasets'
         /\ countByFileId(goods', id) = 0
         /\ id \notin DOMAIN lsSel']_vars

C9_Witness ==
  \E id \in deleted :
    /\ id \notin DOMAIN datasets
    /\ countByFileId(goods, id) = 0
    /\ id \notin DOMAIN lsSel

\* C10: clearAll(id) for the active dataset resets the in-memory selection and
\* the active-dataset pointer (state and persisted key); clearAll(id) for a
\* non-active dataset leaves the pointer, the in-memory selection and every
\* other dataset's persisted selection unchanged.
C10_ClearAllFrame ==
  [][\A id \in Ids :
       DeleteFinishes(id) =>
         IF activeFileId = id
           THEN selection' = {} /\ activeFileId' = 0 /\ lsActive' = 0
           ELSE /\ activeFileId' = activeFileId
                /\ lsActive' = lsActive
                /\ selection' = selection
                /\ \A j \in Ids \ {id} :
                     /\ (j \in DOMAIN lsSel) = (j \in DOMAIN lsSel')
                     /\ j \in DOMAIN lsSel => lsSel'[j] = lsSel[j]]_vars

\* the record at flat index i of the dataset the grid is bound to, in
\* primary-key order
RecordAt(i) == getByFileId(goods, grid.file)[i + 1]

\* C11: over the lifetime of one mounted grid at most one
\* getByFileIdPaginated is issued for every page number, however often
\* onChange and loadPage ask for ranges that contain the page.
C11_AtMostOneFetchPerPage ==
  \A p \in DOMAIN grid.issued : grid.issued[p] <= 1

C11_Witness ==
  \E p \in grid.again : p >= 1 /\ grid.issued[p] = 1 /\ p \notin grid.inflight

\* C12: a shift-click at flat index t with an anchor a >= 0 yields the
\* previous selection plus exactly the business ids of the records loaded at
\* the flat indices min(a,t)..max(a,t): nothing is removed, no id of an index
\* outside the range is added, unloaded indices are skipped.
C12_RangeAddsLoadedIdsInRange ==
  [][\A t \in 0..MaxRecords :
       (HandleSelect(t, TRUE) /\ grid.lastAnchorIdx >= 0) =>
         LET a == grid.lastAnchorIdx
             lo == IF a < t THEN a ELSE t
             hi == IF a > t THEN a ELSE t
             in == (lo..hi) \cap DOMAIN grid.goods IN
         /\ selection \subseteq selection'
         /\ \A g \in selection' \ selection : \E i \in in : RecordAt(i).goods_id = g
         /\ \A i \in in : RecordAt(i).goods_id \in selection']_vars

C12_Witness ==
  /\ grid.log # <<>>
  /\ grid.log[Len(grid.log)].ranged
  /\ LET a == grid.lastAnchorIdx
         t == grid.log[Len(grid.log)].idx
         lo == IF a < t THEN a ELSE t
         hi == IF a > t THEN a ELSE t IN
       /\ \E i \in lo..hi : i \notin DOMAIN grid.goods
       /\ LoadedIds(grid, lo, hi) \subseteq selection
       /\ \E g \in selection : g \notin LoadedIds(grid, lo, hi)

\* C13: the range anchor is the flat index of the last non-range click: a
\* plain click, or a shift-click while there is no anchor, sets it to the
\* clicked index; a range gesture leaves it unchanged, and so does every
\* step that is not a click on a card.
C13_AnchorIsLastPlainClick ==
  [][/\ \A idx \in 0..MaxRecords : \A shiftKey \in BOOLEAN :
          HandleSelect(idx, shiftKey) =>
            IF shiftKey /\ grid.lastAnchorIdx >= 0
              THEN grid'.lastAnchorIdx = grid.lastAnchorIdx
              ELSE grid'.lastAnchorIdx = idx
     /\ (~ \E idx \in 0..MaxRecords : \E shiftKey \in BOOLEAN : HandleSelect(idx, shiftKey))
          => grid'.lastAnchorIdx = grid.lastAnchorIdx]_vars

C13_Witness ==
  /\ Len(grid.log) = 2
  /\ grid.log[1].ranged /\ grid.log[2].ranged
  /\ grid.log[1].idx # grid.log[2].idx
  /\ grid.lastAnchorIdx >= 0
  /\ grid.lastAnchorIdx \notin {grid.log[1].idx, grid.log[2].idx}

\* C14: a plain click on a record flips the membership of exactly that
\* record's business id and leaves every other id's membership unchanged;
\* flipping the same id twice gives the original selection back.
C14_PlainClickFlipsOne ==
  [][/\ \A idx \in 0..MaxRecords :
          HandleSelect(idx, FALSE) =>
            LET g == RecordAt(idx).goods_id IN
            /\ (g \in selection') = (g \notin selection)
            /\ selection' \ {g} = selection \ {g}
     /\ \A g \in 1..MaxRecords : toggle(toggle(selection, g), g) = selection]_vars

C14_Witness ==
  /\ Len(grid.log) = 2
  /\ ~grid.log[1].ranged /\ ~grid.log[2].ranged
  /\ grid.log[1].idx = grid.log[2].idx
  /\ grid.log[1].idx \in DOMAIN grid.goods
  /\ grid.goods[grid.log[1].idx].goods_id \in selection
  /\ Cardinality(selection) >= 2

\* the business ids of all records stored under dataset id
AllIds(id) == {getByFileId(goods, id)[i].goods_id : i \in 1..Len(getByFileId(goods, id))}

\* the step is a selection operation of the page: toggle or range extension,
\* the completion of selectAll, or clear
SelectionOp ==
  \/ \E idx \in 0..MaxRecords : \E shiftKey \in BOOLEAN : HandleSelect(idx, shiftKey)
  \/ \E id \in Ids : SelectAllCommit(id)
  \/ ClearSelection

\* C15: when the active dataset changes to B, the in-memory selection becomes
\* the selection persisted for B (empty if none), and if B was active before
\* it is exactly the selection B had when it was left.
C15_SwitchRestoresSelection ==
  [][\A id \in Ids :
       (activeFileId # id /\ activeFileId' = id) =>
         /\ selection' = readSelection(lsSel, id)
         /\ id \in DOMAIN leftSel => selection' = leftSel[id]]_vars

\* C16: after every selection operation the key sel_file_<activeId> of the
\* active dataset holds exactly the in-memory selection, and is absent
\* exactly when that selection is empty.
C16_PersistedMirrorsSelection ==
  [][(SelectionOp /\ activeFileId' # 0) =>
       /\ (activeFileId' \in DOMAIN lsSel') = (selection' # {})
       /\ readSelection(lsSel', activeFileId') = selection']_vars

\* C17: when selectAll completes, the selection of the active dataset is
\* exactly the set of business ids of all records stored under that dataset.
C17_SelectAllSelectsWholeDataset ==
  [][\A id \in Ids :
       (SelectAllCommit(id) /\ activeFileId' # 0) =>
         /\ selection' = AllIds(activeFileId')
         /\ readSelection(lsSel', activeFileId') = AllIds(activeFileId')]_vars

\* C18: an export that was loading or exporting when cancel() ran is
\* abandoned for good: no export worker runs for it afterwards and no file
\* is ever handed to the download click for it.
C18_CancelAbandonsExport ==
  \A k \in exCancelled :
    /\ xwk[k].st # "running"
    /\ xchan[k] = <<>>
    /\ k \notin produced

\* C19: the export status only moves idle -> loading -> exporting -> done,
\* from loading or exporting to error, from loading or exporting to idle on
\* cancel, and from done to idle by the auto-revert; only startExport leaves
\* idle or error.
C19_ExportStatusMachine ==
  [][\/ exState'.status = exState.status
     \/ /\ \E format \in {"csv", "json"} : StartExport(format)
        /\ exState.status \in {"idle", "error"}
        /\ exState'.status = "loading"
     \/ /\ exState.status = "loading"
        /\ exState'.status \in {"exporting", "error"}
     \/ /\ exState.status = "exporting"
        /\ exState'.status \in {"done", "error"}
     \/ /\ CancelExport
        /\ exState.status \in {"loading", "exporting"}
        /\ exState'.status = "idle"
     \/ /\ \E k \in Exports : AutoRevert(k)
        /\ exState.status = "done"
        /\ exState'.status = "idle"]_vars

\* C20: the import status only moves idle -> parsing -> saving -> done, from
\* parsing or saving to error, and from parsing or saving to idle on cancel;
\* a new importFile starts over at parsing, and after cancel the status
\* stays idle until importFile is called again.
C20_ImportStatusMachine ==
  [][\/ status' = status
     \/ /\ \E f \in Files : ImportFile(f)
        /\ status' = "parsing"
     \/ /\ status = "parsing"
        /\ status' \in {"saving", "error"}
     \/ /\ status = "saving"
        /\ status' \in {"done", "error"}
     \/ /\ Cancel
        /\ status \in {"parsing", "saving"}
        /\ status' = "idle"]_vars

\* C21: in the step in which an import reports status done (and invokes
\* onSuccess) none of its batches is waiting in the drain queue and no bulk
\* insert of its records is in flight.
C21_DoneOnlyAfterDrain ==
  [][\A k \in Attempts :
       ReachesDone(k) =>
         /\ \A j \in 1..Len(pendingChunks) : pendingChunks[j][1].fileId # imp[k].fileId
         /\ \A i \in 1..Len(dbq) :
              dbq[i].op = "bulkAdd" => dbq[i].rows[1].fileId # imp[k].fileId]_vars

\* C22: at any time at most one goodsRepo.bulkInsert call is in flight (the
\* drain is a single in-order loop).
C22_SingleDrain ==
  Cardinality({i \in 1..Len(dbq) : dbq[i].op = "bulkAdd"}) <= 1

\* the cell is the decimal text of an integer
ParsesAsInteger(cell) == \E d \in DOMAIN Digits : cell = << Digits[d] >>

\* the rows of file f whose business id parses as an integer
GoodRows(f) == {i \in 1..Len(f) : ParsesAsInteger(Cell(f[i], <<"goods_id">>))}

\* C23: a source row whose business id is missing or does not parse as an
\* integer is never emitted in a CHUNK, never persisted and not counted in
\* totalRows.
C23_BadIdDropped ==
  \A k \in Attempts :
    LET w == wk[k]
        ok == {Number(Cell(w.file[i], <<"goods_id">>)) : i \in GoodRows(w.file)} IN
    /\ \A m \in 1..Len(w.sent) :
         w.sent[m].type = "CHUNK" =>
           \A j \in 1..Len(w.sent[m].rows) : w.sent[m].rows[j].goods_id \in ok
    /\ \A j \in 1..Len(goods) :
         (w.st # "none" /\ goods[j].fileId = w.fileId) => goods[j].goods_id \in ok
    /\ imp[k].phase = "done" =>
         datasets[imp[k].fileId].totalRows = Cardinality(GoodRows(w.file))

\* the rows of file f that mapRow keeps, normalized, in source order
RECURSIVE Normalized(_, _)
Normalized(f, fileId) ==
  IF f = <<>> THEN <<>> ELSE mapRow(Head(f), fileId) \o Normalized(Tail(f), fileId)

\* the CHUNK messages among msgs, in the order they were posted
Chunks(msgs) == SelectSeq(msgs, LAMBDA m : m.type = "CHUNK")

RECURSIVE Objects(_, _)
Objects(rows, i) ==
  IF i > Len(rows) THEN <<>>
  ELSE JSONrow(rows[i]) \o (IF i < Len(rows) THEN << "," >> ELSE <<>>) \o << "\n" >>
         \o Objects(rows, i + 1)

Quoting(val) ==
  IF \E i \in 1..Len(val) : val[i] \in {",", "\"", "\n", "\r"}
    THEN << "\"" >> \o DoubleQuotes(val) \o << "\"" >>
    ELSE val

\* the line-terminated records of rows from row i on
RECURSIVE Records(_, _)
Records(rows, i) ==
  IF i > Len(rows) THEN <<>>
  ELSE String(rows[i].goods_id) \o << "," >> \o Quoting(rows[i].goods_title) \o << "," >>
         \o String(rows[i].gomer_sync_source_id) \o << "," >>
         \o Quoting(JSONarray(rows[i].goods_images_url)) \o << "\n" >>
         \o Records(rows, i + 1)

\* C25: the delimited-text export is the header line followed by exactly one
\* line-terminated record per row, in which the title and the images field
\* are quoted (quotes doubled) when they hold a comma, a quote or a line break
\* and are unchanged otherwise; a reader of the format finds one record per row.
C25_CSVQuoting ==
  \A k \in Exports :
    (xwk[k].format = "csv" /\ xwk[k].blob # <<>>) =>
      /\ xwk[k].blob = CSV_HEADER \o << "\n" >> \o Records(xwk[k].rows, 1)
      /\ Len(PapaParse(xwk[k].blob)) = Len(xwk[k].rows)

\* a delimited-text export of rows whose title holds a quote and a line break
\* was built
C25_Witness ==
  \E k \in Exports :
    /\ xwk[k].format = "csv"
    /\ xwk[k].blob # <<>>
    /\ Len(xwk[k].rows) >= 2
    /\ xwk[k].rows[1].goods_title = << "\"", "\n" >>

\* C26: when the import of an exported file reports done, the records of the
\* new dataset equal the exported rows in business id, title, source
\* reference and images, for both formats.
C26_RoundTrip ==
  \A k \in Attempts :
    imp[k].phase = "done" =>
      LET stored == getByFileId(goods, imp[k].fileId) IN
      [j \in 1..Len(stored) |-> ExportRow(stored[j])] = xwk[1].rows

\* the stored records of the dataset of export k whose business id is among
\* the ids the export was started with
Selected(k) ==
  SelectSeq(goods, LAMBDA r : r.fileId = ex[k].fileId
                                /\ \E j \in 1..Len(ex[k].ids) : ex[k].ids[j] = r.goods_id)

\* C27: the rows handed to the export worker are exactly the selected stored
\* records of the dataset, projected: as many rows as there are such records
\* and the same projections, whatever other datasets hold and however the ids
\* fall into lookup batches.
C27_ExportRowsAreSelection ==
  \A k \in Exports :
    xwk[k].st # "none" =>
      /\ Len(xwk[k].rows) = Len(Selected(k))
      /\ {xwk[k].rows[j] : j \in 1..Len(xwk[k].rows)}
           = {ExportRow(Selected(k)[j]) : j \in 1..Len(Selected(k))}

\* a worker was handed the rows of a selection looked up in two batches while
\* another dataset stores records with the same business ids
C27_Witness ==
  \E k \in Exports :
    /\ xwk[k].st = "running"
    /\ Len(ex[k].ids) > BATCH
    /\ Len(xwk[k].rows) = Len(ex[k].ids)
    /\ \E j \in 1..Len(goods) :
         /\ goods[j].fileId # ex[k].fileId
         /\ goods[j].goods_id = ex[k].ids[1]

\* C28: the reported export progress stays in 0..100, lies in 0..50 while the
\* status is loading, is 50 on entering exporting, lies in 50..100 while the
\* status is exporting, is 100 when the status becomes done, and does not
\* decrease from step to step while an export is loading or exporting.
C28_ExportProgress ==
  [][/\ exState'.progress \in 0..100
     /\ exState'.status = "loading" => exState'.progress \in 0..50
     /\ exState'.status = "exporting" => exState'.progress \in 50..100
     /\ (exState.status = "loading" /\ exState'.status = "exporting") => exState'.progress = 50
     /\ exState'.status = "done" => exState'.progress = 100
     /\ (exState.status \in {"loading", "exporting"}
           /\ exState'.status \in {"loading", "exporting", "done"}) =>
          exState'.progress >= exState.progress]_vars

PageIndices(p, total) ==
  {i \in (p * PAGE_SIZE)..((p + 1) * PAGE_SIZE - 1) : i < total}

\* every record of page p is in the cache
PageLoaded(g, p, total) == PageIndices(p, total) \subseteq DOMAIN g.goods

C32_MergeByFlatIndex ==
  /\ [][\A page \in 0..MaxRecords :
          FetchCommit(page) =>
            /\ \A x \in DOMAIN grid.goods :
                 x \div PAGE_SIZE # page =>
                   x \in DOMAIN grid'.goods /\ grid'.goods[x] = grid.goods[x]
            /\ \A x \in DOMAIN grid'.goods :
                 (x \notin DOMAIN grid.goods \/ grid'.goods[x] # grid.goods[x]) =>
                   x \div PAGE_SIZE = page]_vars
  /\ [](grid.inflight = {} =>
          LET total == datasets[grid.file].totalRows
              held == UNION {PageIndices(p, total) : p \in grid.loadedPages} IN
          grid.goods = [x \in held |-> RecordAt(x)])

\* a page after the first is in the cache while the fetch of an earlier
\* page, issued before it, has not completed
C32_Witness ==
  \E p \in grid.loadedPages : \E q \in grid.inflight :
    /\ q < p
    /\ p \notin grid.inflight
    /\ PageIndices(p, datasets[grid.file].totalRows) # {}
    /\ PageLoaded(grid, p, datasets[grid.file].totalRows)

\* C33: the scroll offset is persisted by a coalescing debounce. Every
\* scroll event leaves exactly one timeout pending (the pending one is
\* cancelled, a new one set), so at most one is pending at any time; the
\* stored offset changes only when a timeout fires, and the firing stores
\* the offset of the last scroll event and ends the burst: between two
\* writes lies at least one scroll event, and when no timeout is pending
\* after a scroll the stored offset is the latest one.
C33_ScrollWriteCoalesced ==
  /\ [](/\ grid.scrollTimers <= 1
        /\ grid.scrollTimers = 1 <=> grid.burst >= 1
        /\ (grid.scrolled /\ grid.scrollTimers = 0) =>
             /\ grid.file \in DOMAIN ssScroll
             /\ ssScroll[grid.file] = String(grid.scrollTop))
  /\ [][/\ (\E pos \in 0..MaxScrollTop : Scroll(pos)) =>
             grid'.scrollTimers = 1 /\ ssScroll' = ssScroll
        /\ ssScroll' # ssScroll =>
             /\ grid.scrollTimers = 1 /\ grid'.scrollTimers = 0
             /\ grid.burst >= 1
             /\ ssScroll' = SetItem(ssScroll, grid.file, String(grid.scrollTop))]_vars

\* the grid was scrolled to the highest offset, the timeout has fired and
\* the stored offset is that one
C33_Witness ==
  /\ grid.scrolled
  /\ grid.scrollTimers = 0
  /\ grid.restore = 0
  /\ grid.scrollTop = MaxScrollTop
  /\ grid.file \in DOMAIN ssScroll
  /\ ssScroll[grid.file] = String(MaxScrollTop)

\* C34: for a file that decodes, the messages a worker posts for its PARSE
\* are CHUNK and PROGRESS messages followed by exactly one DONE, which is the
\* last message, and the totalRows of the DONE is the number of rows in the
\* CHUNK batches posted before it.
C34_DoneLastWithBatchSum ==
  \A k \in Attempts :
    LET s == wk[k].sent IN
    /\ \A m \in 1..Len(s) :
         /\ s[m].type \in {"CHUNK", "PROGRESS", "DONE"}
         /\ s[m].type = "DONE" =>
              /\ m = Len(s)
              /\ wk[k].st # "running"
              /\ s[m].a = Len(Flat(Chunks(SubSeq(s, 1, m - 1))))
    /\ wk[k].st = "ended" => s # <<>> /\ s[Len(s)].type = "DONE"

\* a worker posted DONE after two batches for a file of which it dropped a row
C34_Witness ==
  \E k \in Attempts :
    LET s == wk[k].sent IN
    /\ s # <<>>
    /\ s[Len(s)].type = "DONE"
    /\ s[Len(s)].a >= 2
    /\ s[Len(s)].a < Len(wk[k].file)
    /\ Len(Chunks(s)) >= 2

\* C35: the page cache converges to complete pages. Whenever a page of the
\* mounted grid is marked in loadedPages and its fetch is not in flight,
\* every flat index of the page below the totalRows of the dataset is in the
\* cache.
C35_RequestedPagesComplete ==
  (grid.file # 0 /\ grid.file \in DOMAIN datasets) =>
    \A p \in grid.loadedPages \ grid.inflight :
      PageLoaded(grid, p, datasets[grid.file].totalRows)

\* C36: the query of a selectAll started for dataset A that resolves while
\* another dataset is active (the user switched, or A was deleted) changes
\* neither the in-memory selection nor any persisted selection.
C36_StaleSelectAllIgnored ==
  [][\A id \in Ids :
       (SelectAllCommit(id) /\ id # activeFileId) =>
         selection' = selection /\ lsSel' = lsSel]_vars

\* C37: the auto-revert timer set when an export reaches done resets only
\* that export. When it fires while another export, started later and not
\* cancelled, is loading or exporting, the status and the progress shown for
\* that export stay as they are.
C37_RevertOnlyOwnExport ==
  [][\A k \in Exports :
       (AutoRevert(k) /\ \E j \in Exports \ exCancelled :
                           j > k /\ ex[j].phase \in {"loading", "exporting"}) =>
         exState' = exState]_vars

\* the export workers that were created and not terminated
LiveExportWorkers == {k \in Exports : xwk[k].st \in {"running", "ended"}}

\* C38: at most one export runs at a time: in every reachable state at
\* most one export worker exists.
C38_SingleExportWorker == Cardinality(LiveExportWorkers) <= 1

\* C39: at most one import is active at a time: importFile never runs while
\* the previous import is parsing or saving, so its start never empties a
\* queue that holds batches of a running import.
C39_SingleImport ==
  [][(\E f \in Files : ImportFile(f)) =>
       /\ status \notin {"parsing", "saving"}
       /\ pendingChunks = <<>>]_vars

====
